---------------------------- MODULE Spec2Model ----------------------------
(***************************************************************************)
(* Model of the ASO scoring engine (app-store-optimization/aso_scorer.py) *)
(* and of the keyword analyzer (app-store-optimization/keyword_analyzer.py).*)
(*                                                                         *)
(* Numbers.  Python floats are modelled as exact rationals with the fixed  *)
(* denominator DEN: the integer n stands for the score n / DEN.  Every     *)
(* division the scorers perform on the modelled inputs is exact in these   *)
(* units, so round(x, 1) is decided on the exact value (ties go to the     *)
(* even tenth, as Python's round does on a binary-exact tie; for inputs    *)
(* that are not binary-exact the float sum may fall on either side of a    *)
(* tie, and no property below depends on the side taken).  Metrics         *)
(* that are decimals in the source (ratings, rates, densities, quality)    *)
(* are carried in hundredths: 3.74 is 374; counts are plain integers.      *)
(* Strings that the code transforms (the platform identifier) are          *)
(* sequences of one-character strings.  Keywords are strings; relevance    *)
(* scores (0.0 - 1.0 in the source) are carried in thousandths: 0.9 is 900.*)
(***************************************************************************)
EXTENDS Integers, Sequences, FiniteSets, TLC

VARIABLES
    class_attrs,       \* ASOScorer.WEIGHTS, GOOGLE_WEIGHTS, APPLE_WEIGHTS, BENCHMARKS, TECHNICAL_BENCHMARKS
    ctor_platform,     \* the platform argument the scorer was constructed with
    platform,          \* self.platform
    _active_weights,   \* self._active_weights
    score_breakdown,   \* self.score_breakdown
    fn,                \* name of the most recent call on the scorer ("__init__" right after construction)
    args,              \* arguments of the most recent call
    ret,               \* value returned by the most recent call
    analyzed_keywords, \* KeywordAnalyzer: self.analyzed_keywords
    optimizer,         \* the MetadataOptimizer the caller holds (its platform and limits), or None
    hash_order,        \* the interpreter: the order in which this run enumerates a set of strings
    earlier,           \* history: one earlier call (its name, arguments and result), or None
    threads            \* the threads inside calculate_overall_score: position and locals of each

scorer_vars == <<class_attrs, ctor_platform, platform, _active_weights, score_breakdown>>

\* what a call made outside the cluster and thread specifications leaves alone
env_vars == <<hash_order, optimizer, earlier, threads>>

vars == <<scorer_vars, fn, args, ret, analyzed_keywords, env_vars>>

-----------------------------------------------------------------------------
(* Arithmetic *)

DEN == 16 * 3 * 125 * 49

Pts(n) == n * DEN

\* a / b as a score, for integers a and b (b divides a * DEN on the modelled inputs)
Ratio(a, b) == (a * DEN) \div b

\* a decimal input carried in hundredths, as a score
Dec(h) == (h * DEN) \div 100

\* x * (num / den) for a score x and the decimal literal num / den
Mul(x, num, den) == (x * num) \div den

Min(a, b) == IF a <= b THEN a ELSE b

Max(a, b) == IF a >= b THEN a ELSE b

\* a relevance score carried in thousandths, as a score
Thousandths(h) == (h * DEN) \div 1000

RECURSIVE GCD(_, _)
GCD(a, b) == IF b = 0 THEN a ELSE GCD(b, a % b)

\* a / b as a score for a large count a: the fraction DEN / b is reduced first,
\* so that the product stays within the integers of the checker
Div(a, b) == LET g == GCD(DEN, b) IN (a * (DEN \div g)) \div (b \div g)

Tenth == DEN \div 10

\* Python round(x, 1): to the nearest tenth, an exact tie to the even tenth
\* (\div rounds down and % is never negative, also for a negative x)
Round1(x) ==
    LET q == x \div Tenth
        r == x % Tenth
    IN  IF 2 * r > Tenth \/ (2 * r = Tenth /\ q % 2 = 1)
        THEN (q + 1) * Tenth
        ELSE q * Tenth

\* dict.get(key, default)
Get(d, key, default) == IF key \in DOMAIN d THEN d[key] ELSE default

\* d[key] = value
Put(d, key, value) == [k \in DOMAIN d \cup {key} |-> IF k = key THEN value ELSE d[k]]

\* del d[key]
Del(d, key) == [k \in DOMAIN d \ {key} |-> d[k]]

EmptyBundle == [k \in {} |-> 0]

RECURSIVE SumSeq(_)
SumSeq(s) == IF s = <<>> THEN 0 ELSE Head(s) + SumSeq(Tail(s))

-----------------------------------------------------------------------------
(* Strings: str.lower() on ASCII text *)

LowerChar(c) ==
    CASE c = "A" -> "a" [] c = "B" -> "b" [] c = "C" -> "c" [] c = "D" -> "d"
      [] c = "E" -> "e" [] c = "F" -> "f" [] c = "G" -> "g" [] c = "H" -> "h"
      [] c = "I" -> "i" [] c = "J" -> "j" [] c = "K" -> "k" [] c = "L" -> "l"
      [] c = "M" -> "m" [] c = "N" -> "n" [] c = "O" -> "o" [] c = "P" -> "p"
      [] c = "Q" -> "q" [] c = "R" -> "r" [] c = "S" -> "s" [] c = "T" -> "t"
      [] c = "U" -> "u" [] c = "V" -> "v" [] c = "W" -> "w" [] c = "X" -> "x"
      [] c = "Y" -> "y" [] c = "Z" -> "z"
      [] OTHER -> c

Lower(s) == [i \in 1..Len(s) |-> LowerChar(s[i])]

\* str.lower() of a string
RECURSIVE LowerFrom(_, _)
LowerFrom(s, i) ==
    IF i > Len(s) THEN "" ELSE LowerChar(SubSeq(s, i, i)) \o LowerFrom(s, i + 1)

str_lower(s) == LowerFrom(s, 1)

\* Optional[str]: None, or a string
None == [isNone |-> TRUE, v |-> <<>>]

Some(v) == [isNone |-> FALSE, v |-> v]

-----------------------------------------------------------------------------
(* Class-level tables *)

Dimensions ==
    <<"metadata_quality", "ratings_reviews", "keyword_performance",
      "conversion_metrics", "technical_performance", "visual_optimization">>

WEIGHTS_unbalanced ==
    [metadata_quality |-> 20, ratings_reviews |-> 20, keyword_performance |-> 20,
     conversion_metrics |-> 20, technical_performance |-> 20, visual_optimization |-> 5]

WEIGHTS ==
    [metadata_quality |-> 20, ratings_reviews |-> 20, keyword_performance |-> 20,
     conversion_metrics |-> 20, technical_performance |-> 15, visual_optimization |-> 5]

GOOGLE_WEIGHTS_unbalanced ==
    [metadata_quality |-> 20, ratings_reviews |-> 20, keyword_performance |-> 20,
     conversion_metrics |-> 20, technical_performance |-> 20, visual_optimization |-> 5]

GOOGLE_WEIGHTS ==
    [metadata_quality |-> 20, ratings_reviews |-> 20, keyword_performance |-> 20,
     conversion_metrics |-> 15, technical_performance |-> 20, visual_optimization |-> 5]

APPLE_WEIGHTS ==
    [metadata_quality |-> 20, ratings_reviews |-> 20, keyword_performance |-> 20,
     conversion_metrics |-> 20, technical_performance |-> 10, visual_optimization |-> 10]

\* decimal thresholds (keyword_density, average_rating, conversion_rate) in hundredths
BENCHMARKS ==
    [title_keyword_usage |-> [min |-> 1, target |-> 2],
     description_length  |-> [min |-> 500, target |-> 2000],
     keyword_density     |-> [min |-> 200, optimal |-> 500, max |-> 800],
     average_rating      |-> [min |-> 350, target |-> 450],
     ratings_count       |-> [min |-> 100, target |-> 5000],
     keywords_top_10     |-> [min |-> 2, target |-> 10],
     keywords_top_50     |-> [min |-> 5, target |-> 20],
     conversion_rate     |-> [min |-> 2, target |-> 10]]

\* percentages in hundredths
TECHNICAL_BENCHMARKS ==
    [crash_rate     |-> [good |-> 100, acceptable |-> 200],
     anr_rate       |-> [good |-> 50, acceptable |-> 100],
     battery_impact |-> [good |-> 500, acceptable |-> 1000]]

ClassAttrs ==
    [WEIGHTS |-> WEIGHTS, GOOGLE_WEIGHTS |-> GOOGLE_WEIGHTS, APPLE_WEIGHTS |-> APPLE_WEIGHTS,
     BENCHMARKS |-> BENCHMARKS, TECHNICAL_BENCHMARKS |-> TECHNICAL_BENCHMARKS]

-----------------------------------------------------------------------------
(* Dimension scorers.  Each returns a score in DEN units. *)

score_metadata_quality(metadata) ==
    LET B == class_attrs.BENCHMARKS
        title_keywords == Get(metadata, "title_keyword_count", 0)
        title_length == Get(metadata, "title_length", 0)
        title_base ==
            IF title_keywords >= B.title_keyword_usage.target THEN 35
            ELSE IF title_keywords >= B.title_keyword_usage.min THEN 25
            ELSE 10
        title_score == IF title_length > 25 THEN title_base + 0 ELSE title_base - 5
        desc_length == Get(metadata, "description_length", 0)
        desc_quality == Get(metadata, "description_quality", 0)
        desc_base ==
            IF desc_length >= B.description_length.target THEN 25
            ELSE IF desc_length >= B.description_length.min THEN 15
            ELSE 5
        desc_score == Pts(desc_base) + Dec(desc_quality) * 10
        keyword_density == Get(metadata, "keyword_density", 0)
        density_score ==
            IF B.keyword_density.min <= keyword_density /\ keyword_density <= B.keyword_density.optimal
            THEN Pts(30)
            ELSE IF keyword_density < B.keyword_density.min
            THEN Ratio(keyword_density, B.keyword_density.min) * 20
            ELSE Max(Pts(30) - Dec(keyword_density - B.keyword_density.optimal) * 5, 0)
        scores == <<Pts(Min(title_score, 35)), Min(desc_score, Pts(35)), density_score>>
    IN  Round1(SumSeq(scores))

score_ratings_reviews(ratings) ==
    LET B == class_attrs.BENCHMARKS
        average_rating == Get(ratings, "average_rating", 0)
        total_ratings == Get(ratings, "total_ratings", 0)
        recent_ratings == Get(ratings, "recent_ratings_30d", 0)
        rating_quality_score ==
            IF average_rating >= B.average_rating.target THEN Pts(50)
            ELSE IF average_rating >= B.average_rating.min
            THEN Pts(30) + Ratio(average_rating - B.average_rating.min,
                                 B.average_rating.target - B.average_rating.min) * 20
            ELSE IF average_rating >= 300 THEN Pts(20)
            ELSE Pts(10)
        rating_volume_score ==
            IF total_ratings >= B.ratings_count.target THEN Pts(30)
            ELSE IF total_ratings >= B.ratings_count.min
            THEN Pts(15) + Ratio(total_ratings - B.ratings_count.min,
                                 B.ratings_count.target - B.ratings_count.min) * 15
            ELSE Ratio(total_ratings, B.ratings_count.min) * 15
        velocity_score ==
            IF recent_ratings > 100 THEN Pts(20)
            ELSE IF recent_ratings > 50 THEN Pts(15)
            ELSE IF recent_ratings > 10 THEN Pts(10)
            ELSE Pts(5)
        total_score == rating_quality_score + rating_volume_score + velocity_score
    IN  Round1(Min(total_score, Pts(100)))

score_keyword_performance(keyword_performance) ==
    LET B == class_attrs.BENCHMARKS
        top_10_count == Get(keyword_performance, "top_10", 0)
        top_50_count == Get(keyword_performance, "top_50", 0)
        top_100_count == Get(keyword_performance, "top_100", 0)
        improving_keywords == Get(keyword_performance, "improving_keywords", 0)
        top_10_score ==
            IF top_10_count >= B.keywords_top_10.target THEN Pts(50)
            ELSE IF top_10_count >= B.keywords_top_10.min
            THEN Pts(25) + Ratio(top_10_count - B.keywords_top_10.min,
                                 B.keywords_top_10.target - B.keywords_top_10.min) * 25
            ELSE Ratio(top_10_count, B.keywords_top_10.min) * 25
        top_50_score ==
            IF top_50_count >= B.keywords_top_50.target THEN Pts(30)
            ELSE IF top_50_count >= B.keywords_top_50.min
            THEN Pts(15) + Ratio(top_50_count - B.keywords_top_50.min,
                                 B.keywords_top_50.target - B.keywords_top_50.min) * 15
            ELSE Ratio(top_50_count, B.keywords_top_50.min) * 15
        coverage_score == Min(Ratio(top_100_count, 30) * 10, Pts(10))
        trend_score ==
            IF improving_keywords > 5 THEN Pts(10)
            ELSE IF improving_keywords > 0 THEN Pts(5)
            ELSE 0
        total_score == top_10_score + top_50_score + coverage_score + trend_score
    IN  Round1(Min(total_score, Pts(100)))

score_conversion_metrics(conversion) ==
    LET B == class_attrs.BENCHMARKS
        conversion_rate == Get(conversion, "impression_to_install", 0)
        downloads_30d == Get(conversion, "downloads_last_30_days", 0)
        downloads_trend == Get(conversion, "downloads_trend", "stable")
        conversion_score ==
            IF conversion_rate >= B.conversion_rate.target THEN Pts(70)
            ELSE IF conversion_rate >= B.conversion_rate.min
            THEN Pts(35) + Ratio(conversion_rate - B.conversion_rate.min,
                                 B.conversion_rate.target - B.conversion_rate.min) * 35
            ELSE Ratio(conversion_rate, B.conversion_rate.min) * 35
        velocity_score ==
            IF downloads_30d > 10000 THEN Pts(20)
            ELSE IF downloads_30d > 1000 THEN Pts(15)
            ELSE IF downloads_30d > 100 THEN Pts(10)
            ELSE Pts(5)
        trend_score ==
            IF downloads_trend = "up" THEN Pts(10)
            ELSE IF downloads_trend = "stable" THEN Pts(5)
            ELSE 0
        total_score == conversion_score + velocity_score + trend_score
    IN  Round1(Min(total_score, Pts(100)))

\* crash rate score (0-40 points)
crash_score_of(crash_rate) ==
    LET benchmarks == class_attrs.TECHNICAL_BENCHMARKS
    IN  IF crash_rate <= benchmarks.crash_rate.good THEN Pts(40)
        ELSE IF crash_rate <= benchmarks.crash_rate.acceptable
        THEN Pts(40) - Ratio(crash_rate - benchmarks.crash_rate.good,
                             benchmarks.crash_rate.acceptable - benchmarks.crash_rate.good) * 20
        ELSE Max(Pts(20) - Dec(crash_rate - benchmarks.crash_rate.acceptable) * 10, 0)

\* ANR rate score (0-35 points); 17.5 is 35/2 and 8.75 is 35/4
anr_score_nofloor(anr_rate) ==
    LET benchmarks == class_attrs.TECHNICAL_BENCHMARKS
    IN  IF anr_rate <= benchmarks.anr_rate.good THEN Pts(35)
        ELSE IF anr_rate <= benchmarks.anr_rate.acceptable
        THEN Pts(35) - Mul(Ratio(anr_rate - benchmarks.anr_rate.good,
                                 benchmarks.anr_rate.acceptable - benchmarks.anr_rate.good), 35, 2)
        ELSE Mul(Pts(1), 35, 2) - Mul(Dec(anr_rate - benchmarks.anr_rate.acceptable), 35, 4)

anr_score_of(anr_rate) ==
    LET benchmarks == class_attrs.TECHNICAL_BENCHMARKS
    IN  IF anr_rate <= benchmarks.anr_rate.good THEN Pts(35)
        ELSE IF anr_rate <= benchmarks.anr_rate.acceptable
        THEN Pts(35) - Mul(Ratio(anr_rate - benchmarks.anr_rate.good,
                                 benchmarks.anr_rate.acceptable - benchmarks.anr_rate.good), 35, 2)
        ELSE Max(Mul(Pts(1), 35, 2) - Mul(Dec(anr_rate - benchmarks.anr_rate.acceptable), 35, 4), 0)

\* battery impact score (0-25 points); 12.5 is 25/2 and 2.5 is 5/2
battery_score_of(battery_impact) ==
    LET benchmarks == class_attrs.TECHNICAL_BENCHMARKS
    IN  IF battery_impact <= benchmarks.battery_impact.good THEN Pts(25)
        ELSE IF battery_impact <= benchmarks.battery_impact.acceptable
        THEN Pts(25) - Mul(Ratio(battery_impact - benchmarks.battery_impact.good,
                                 benchmarks.battery_impact.acceptable - benchmarks.battery_impact.good), 25, 2)
        ELSE Max(Mul(Pts(1), 25, 2) - Mul(Dec(battery_impact - benchmarks.battery_impact.acceptable), 5, 2), 0)

\* score_technical_performance(**technical_data): a missing keyword takes the default 0.0
score_technical_performance(technical_data) ==
    LET crash_rate == Get(technical_data, "crash_rate", 0)
        anr_rate == Get(technical_data, "anr_rate", 0)
        battery_impact == Get(technical_data, "battery_impact", 0)
        total_score == crash_score_of(crash_rate) + anr_score_of(anr_rate)
                       + battery_score_of(battery_impact)
    IN  Round1(Min(total_score, Pts(100)))

score_visual_optimization_nocpp(visual_data) ==
    LET has_captions == Get(visual_data, "has_captions", FALSE)
        cpp_count == Get(visual_data, "cpp_count", 0)
        has_video == Get(visual_data, "has_video", FALSE)
        points == (IF has_captions THEN 3 ELSE 0)
                  + (IF cpp_count = 1 THEN 1 ELSE 0)
                  + (IF has_video THEN 1 ELSE 0)
    IN  Round1(Ratio(points, 5) * 100)

\* score_visual_optimization(**visual_data)
score_visual_optimization(visual_data) ==
    LET has_captions == Get(visual_data, "has_captions", FALSE)
        cpp_count == Get(visual_data, "cpp_count", 0)
        has_video == Get(visual_data, "has_video", FALSE)
        points == (IF has_captions THEN 3 ELSE 0)
                  + (IF cpp_count > 0 THEN 1 ELSE 0)
                  + (IF has_video THEN 1 ELSE 0)
    IN  Round1(Ratio(points, 5) * 100)

-----------------------------------------------------------------------------
(* Recommendations, health status, priorities, strengths and weaknesses *)

\* a recommendation object; the details and expected_impact texts are fixed per
\* (category, priority) and carry no logic, so the action text stands for them
Rec(category, priority, action) == [category |-> category, priority |-> priority, action |-> action]

\* each dimension's threshold ladder: at most one recommendation
metadata_recs(metadata_score) ==
    IF metadata_score < Pts(60)
    THEN <<Rec("metadata_quality", "high", "Optimize app title and description")>>
    ELSE IF metadata_score < Pts(80)
    THEN <<Rec("metadata_quality", "medium", "Refine metadata for better keyword targeting")>>
    ELSE <<>>

ratings_recs(ratings_score) ==
    IF ratings_score < Pts(60)
    THEN <<Rec("ratings_reviews", "high", "Improve rating quality and volume")>>
    ELSE IF ratings_score < Pts(80)
    THEN <<Rec("ratings_reviews", "medium", "Increase rating velocity")>>
    ELSE <<>>

keyword_recs(keyword_score) ==
    IF keyword_score < Pts(60)
    THEN <<Rec("keyword_performance", "high", "Improve keyword rankings")>>
    ELSE IF keyword_score < Pts(80)
    THEN <<Rec("keyword_performance", "medium", "Expand keyword coverage")>>
    ELSE <<>>

conversion_recs(conversion_score) ==
    IF conversion_score < Pts(60)
    THEN <<Rec("conversion_metrics", "high", "Optimize store listing for conversions")>>
    ELSE IF conversion_score < Pts(80)
    THEN <<Rec("conversion_metrics", "medium", "Test visual asset variations")>>
    ELSE <<>>

technical_recs_twotier(technical_score) ==
    IF technical_score < Pts(60)
    THEN <<Rec("technical_performance", "high", "Address critical stability issues")>>
    ELSE IF technical_score < Pts(80)
    THEN <<Rec("technical_performance", "medium", "Improve app stability and performance")>>
    ELSE <<>>

technical_recs(technical_score) ==
    IF technical_score < Pts(40)
    THEN <<Rec("technical_performance", "high", "Address critical stability issues")>>
    ELSE IF technical_score < Pts(70)
    THEN <<Rec("technical_performance", "medium", "Improve app stability and performance")>>
    ELSE IF technical_score < Pts(90)
    THEN <<Rec("technical_performance", "low", "Fine-tune technical performance")>>
    ELSE <<>>

visual_recs(visual_score) ==
    IF visual_score < Pts(40)
    THEN <<Rec("visual_optimization", "high", "Add captions and video to screenshots")>>
    ELSE IF visual_score < Pts(80)
    THEN <<Rec("visual_optimization", "medium", "Enhance visual assets for better conversion")>>
    ELSE <<>>

generate_recommendations(metadata_score, ratings_score, keyword_score, conversion_score, technical_score, visual_score) ==
    metadata_recs(metadata_score) \o ratings_recs(ratings_score) \o keyword_recs(keyword_score)
    \o conversion_recs(conversion_score) \o technical_recs(technical_score)
    \o visual_recs(visual_score)

_assess_health_status(overall_score) ==
    IF overall_score >= Pts(80) THEN "Excellent - Top-tier ASO performance"
    ELSE IF overall_score >= Pts(65) THEN "Good - Competitive ASO with room for improvement"
    ELSE IF overall_score >= Pts(50) THEN "Fair - Needs strategic improvements"
    ELSE "Poor - Requires immediate ASO overhaul"

priority_order == [high |-> 0, medium |-> 1, low |-> 2]

\* key=lambda x: priority_order[x['priority']]
priority_key(x) == priority_order[x.priority]

\* sorted(recommendations, key=...): a stable sort, an element goes after every
\* element already placed whose key is not larger
RECURSIVE InsertByPriority(_, _)
InsertByPriority(x, s) ==
    IF s = <<>> THEN <<x>>
    ELSE IF priority_key(Head(s)) <= priority_key(x)
    THEN <<Head(s)>> \o InsertByPriority(x, Tail(s))
    ELSE <<x>> \o s

RECURSIVE sorted_by_priority(_)
sorted_by_priority(s) ==
    IF s = <<>> THEN <<>>
    ELSE InsertByPriority(s[Len(s)], sorted_by_priority(SubSeq(s, 1, Len(s) - 1)))

\* seq[:n]
Take(s, n) == SubSeq(s, 1, Min(n, Len(s)))

_prioritize_actions_unsorted(recommendations) == Take(recommendations, 3)

_prioritize_actions(recommendations) ==
    LET sorted_recommendations == sorted_by_priority(recommendations)
    IN  Take(sorted_recommendations, 3)

\* an entry of strengths / weaknesses: the formatted text names the category and
\* its score; the filler entries name no category
Entry(category, score, text) == [category |-> category, score |-> score, text |-> text]

_identify_strengths_strict(breakdown) ==
    LET picked == SelectSeq(Dimensions, LAMBDA c : breakdown[c].score > Pts(75))
        strengths == [i \in 1..Len(picked) |-> Entry(picked[i], breakdown[picked[i]].score, "/100")]
    IN  IF strengths # <<>> THEN strengths
        ELSE <<Entry("", 0, "Focus on building strengths across all areas")>>

_identify_strengths(breakdown) ==
    LET picked == SelectSeq(Dimensions, LAMBDA c : breakdown[c].score >= Pts(75))
        strengths == [i \in 1..Len(picked) |-> Entry(picked[i], breakdown[picked[i]].score, "/100")]
    IN  IF strengths # <<>> THEN strengths
        ELSE <<Entry("", 0, "Focus on building strengths across all areas")>>

_identify_weaknesses_below_50(breakdown) ==
    LET picked == SelectSeq(Dimensions, LAMBDA c : breakdown[c].score < Pts(50))
        weaknesses == [i \in 1..Len(picked) |->
                          Entry(picked[i], breakdown[picked[i]].score, "/100 - needs improvement")]
    IN  IF weaknesses # <<>> THEN weaknesses
        ELSE <<Entry("", 0, "All areas performing adequately")>>

_identify_weaknesses(breakdown) ==
    LET picked == SelectSeq(Dimensions, LAMBDA c : breakdown[c].score < Pts(60))
        weaknesses == [i \in 1..Len(picked) |->
                          Entry(picked[i], breakdown[picked[i]].score, "/100 - needs improvement")]
    IN  IF weaknesses # <<>> THEN weaknesses
        ELSE <<Entry("", 0, "All areas performing adequately")>>

-----------------------------------------------------------------------------
(* The scorer: construction and calculate_overall_score *)

Str_google == <<"g", "o", "o", "g", "l", "e">>

Str_apple == <<"a", "p", "p", "l", "e">>

init_platform_nolower(p) == IF ~p.isNone /\ p.v # <<>> THEN Some(p.v) ELSE None

\* self.platform = platform.lower() if platform else None
\* (None and the empty string are falsy)
init_platform(p) == IF ~p.isNone /\ p.v # <<>> THEN Some(Lower(p.v)) ELSE None

_resolve_weights(self_platform) ==
    IF self_platform = Some(Str_google) THEN class_attrs.GOOGLE_WEIGHTS
    ELSE IF self_platform = Some(Str_apple) THEN class_attrs.APPLE_WEIGHTS
    ELSE class_attrs.WEIGHTS

technical_score_truthy(technical_data) ==
    IF ~technical_data.isNone /\ technical_data.v # <<>>
    THEN score_technical_performance(technical_data.v) ELSE Pts(50)

\* technical_score: the scorer when a bundle is given, the neutral 50.0 when it is None
technical_score_of(technical_data) ==
    IF ~technical_data.isNone THEN score_technical_performance(technical_data.v) ELSE Pts(50)

visual_score_of(visual_data) ==
    IF ~visual_data.isNone THEN score_visual_optimization(visual_data.v) ELSE Pts(50)

\* score * (weight / 100)
Weighted(score, weight) == (score * weight) \div 100

\* the weighted overall score, before rounding
weighted_overall(scores, weights) ==
    SumSeq([i \in 1..Len(Dimensions) |-> Weighted(scores[Dimensions[i]], weights[Dimensions[i]])])

breakdown_of(scores, weights, technical_data, visual_data) ==
    [c \in {Dimensions[i] : i \in 1..Len(Dimensions)} |->
        [score |-> scores[c],
         weight |-> weights[c],
         weighted_contribution |-> Round1(Weighted(scores[c], weights[c])),
         data_provided |->
            IF c = "technical_performance" THEN ~technical_data.isNone
            ELSE IF c = "visual_optimization" THEN ~visual_data.isNone
            ELSE TRUE]]

\* 'platform': self.platform or 'default'
Str_default == <<"d", "e", "f", "a", "u", "l", "t">>

\* the six component scores (lines 119-131)
scores_of(a) ==
    [metadata_quality      |-> score_metadata_quality(a.metadata),
     ratings_reviews       |-> score_ratings_reviews(a.ratings),
     keyword_performance   |-> score_keyword_performance(a.keyword_performance),
     conversion_metrics    |-> score_conversion_metrics(a.conversion),
     technical_performance |-> technical_score_of(a.technical_data),
     visual_optimization   |-> visual_score_of(a.visual_data)]

\* the dict the call stores in self.score_breakdown (line 146)
stored_breakdown(a) ==
    breakdown_of(scores_of(a), _active_weights, a.technical_data, a.visual_data)

\* the report built at lines 177-204 from the call's own scores and from what
\* self.score_breakdown holds when line 199, line 202 and line 203 read it
report_of(a, at_199, at_202, at_203) ==
    LET weights == _active_weights
        scores == scores_of(a)
        overall_score == weighted_overall(scores, weights)
        recommendations ==
            generate_recommendations(scores.metadata_quality, scores.ratings_reviews,
                                     scores.keyword_performance, scores.conversion_metrics,
                                     scores.technical_performance, scores.visual_optimization)
        health_status == _assess_health_status(overall_score)
    IN  [overall_score    |-> Round1(overall_score),
         health_status    |-> health_status,
         platform         |-> IF platform.isNone THEN Str_default ELSE platform.v,
         weights_used     |-> weights,
         score_breakdown  |-> at_199,
         recommendations  |-> recommendations,
         priority_actions |-> _prioritize_actions(recommendations),
         strengths        |-> _identify_strengths(at_202),
         weaknesses       |-> _identify_weaknesses(at_203)]

\* the whole method run alone: the report returned; its score_breakdown is the
\* object the method leaves in self.score_breakdown
calculate_overall_score(a) ==
    LET breakdown == stored_breakdown(a)
    IN  report_of(a, breakdown, breakdown, breakdown)

-----------------------------------------------------------------------------
(* Inputs of the report specification: the platform identifiers a scorer is
   constructed with and the metric bundles a caller passes.  <<>> is the empty
   bundle {} (every key missing). *)

Platforms ==
    {None, Some(<<>>), Some(Str_google), Some(<<"G", "o", "o", "g", "l", "e">>),
     Some(Str_apple), Some(<<"A", "P", "P", "L", "E">>), Some(<<"i", "o", "s">>)}

Metadata(k, dl, q) ==
    [title_keyword_count |-> k, title_length |-> 30, description_length |-> dl,
     description_quality |-> q, keyword_density |-> 300]

MetadataInputs ==
    {<<>>, Metadata(1, 0, 0), Metadata(2, 500, 0), Metadata(2, 2000, 100)}

Ratings(a, t, r) == [average_rating |-> a, total_ratings |-> t, recent_ratings_30d |-> r]

RatingsInputs ==
    {<<>>, Ratings(374, 0, 51), Ratings(375, 0, 51), Ratings(450, 100, 11), Ratings(450, 5000, 101)}

Keywords(t10, t50, t100, imp) ==
    [top_10 |-> t10, top_50 |-> t50, top_100 |-> t100, improving_keywords |-> imp]

KeywordInputs ==
    {<<>>, Keywords(2, 5, 30, 6), Keywords(10, 20, 30, 6)}

Conversion(rate, d, trend) ==
    [impression_to_install |-> rate, downloads_last_30_days |-> d, downloads_trend |-> trend]

ConversionInputs ==
    {<<>>, Conversion(6, 1001, "up"), Conversion(10, 10001, "up")}

Technical(c, a, b) == [crash_rate |-> c, anr_rate |-> a, battery_impact |-> b]

TechnicalInputs ==
    {None, Some(<<>>), Some(Technical(300, 200, 1500)), Some(Technical(200, 100, 1000)),
     Some(Technical(150, 75, 750)), Some(Technical(101, 50, 500))}

Visual(cap, cpp, vid) == [has_captions |-> cap, cpp_count |-> cpp, has_video |-> vid]

VisualInputs ==
    {None, Some(<<>>), Some(Visual(TRUE, 1, FALSE)), Some(Visual(TRUE, 1, TRUE))}

ReportInputs ==
    [metadata |-> MetadataInputs, ratings |-> RatingsInputs,
     keyword_performance |-> KeywordInputs, conversion |-> ConversionInputs,
     technical_data |-> TechnicalInputs, visual_data |-> VisualInputs]

\* the bundles of a caller that has no data yet
NoData ==
    [metadata |-> <<>>, ratings |-> <<>>, keyword_performance |-> <<>>, conversion |-> <<>>,
     technical_data |-> None, visual_data |-> None]

-----------------------------------------------------------------------------
(* Specification of the report: a scorer is constructed for some platform and
   calculate_overall_score is called any number of times; between two calls the
   caller replaces at most one of the six bundles. *)

\* ASOScorer(platform)
Construct(p) ==
    /\ class_attrs = ClassAttrs
    /\ ctor_platform = p
    /\ platform = init_platform(p)
    /\ _active_weights = _resolve_weights(init_platform(p))
    /\ score_breakdown = <<>>
    /\ fn = "__init__"
    /\ args = NoData
    /\ ret = None

\* KeywordAnalyzer()
ConstructAnalyzer == analyzed_keywords = EmptyBundle

\* a run of the interpreter that enumerates a set in the given order; no
\* optimizer is built yet, no call is remembered and no thread is inside the
\* scorer
Run(order) == hash_order = order /\ optimizer = None /\ earlier = None /\ threads = <<>>

Init == \E p \in Platforms : Construct(p) /\ ConstructAnalyzer /\ Run(<<>>)

\* the whole call scorer.calculate_overall_score(**a)
ReportCall(a) ==
    /\ fn' = "calculate_overall_score"
    /\ args' = a
    /\ ret' = calculate_overall_score(a)
    /\ score_breakdown' = ret'.score_breakdown
    /\ UNCHANGED <<class_attrs, ctor_platform, platform, _active_weights>>

CalculateOverallScore ==
    \E slot \in DOMAIN ReportInputs :
        \E bundle \in ReportInputs[slot] :
            /\ ReportCall([args EXCEPT ![slot] = bundle])
            /\ UNCHANGED <<analyzed_keywords, env_vars>>

Next == CalculateOverallScore

Spec == Init /\ [][Next]_vars

-----------------------------------------------------------------------------
(* Specification of the dimension scorers: each scorer is called directly on a
   metric bundle.  A metric is missing from the bundle or takes a value of a
   bounded grid that starts below zero and passes every threshold of the
   scorer; between two calls of one scorer the caller sets or removes at most
   one metric. *)

MaxTitleKeywords == 3
MaxTitleLengthOver == 1
MaxDescriptionSteps == 4
MaxQualitySteps == 3
MaxDensitySteps == 6
MaxRatingSteps == 19
MaxVolumeSteps == 15
MaxRecentSteps == 11
MaxTop10 == 11
MaxTop50Steps == 5
MaxTop100Steps == 4
MaxImproving == 6
MaxRate == 11
MaxDownloadsOver == 1
MaxCpp == 2
MaxCrashSteps == 9
MaxAnrSteps == 31
MaxBatterySteps == 16

ScorerKeys ==
    [score_metadata_quality |->
        {"title_keyword_count", "title_length", "description_length",
         "description_quality", "keyword_density"},
     score_ratings_reviews |-> {"average_rating", "total_ratings", "recent_ratings_30d"},
     score_keyword_performance |-> {"top_10", "top_50", "top_100", "improving_keywords"},
     score_conversion_metrics |->
        {"impression_to_install", "downloads_last_30_days", "downloads_trend"},
     score_technical_performance |-> {"crash_rate", "anr_rate", "battery_impact"},
     score_visual_optimization |-> {"has_captions", "cpp_count", "has_video"}]

ScorerNames == DOMAIN ScorerKeys

\* the values a metric takes (decimals in hundredths)
Values(key) ==
    CASE key = "title_keyword_count" -> -1..MaxTitleKeywords
      [] key = "title_length" -> {25 + i : i \in -1..MaxTitleLengthOver}
      [] key = "description_length" -> {500 * i : i \in -1..MaxDescriptionSteps}
      [] key = "description_quality" -> {50 * i : i \in -1..MaxQualitySteps}
      [] key = "keyword_density" -> {200 * i : i \in -1..MaxDensitySteps}
      [] key = "average_rating" -> {25 * i : i \in -1..MaxRatingSteps}
      [] key = "total_ratings" -> {100 + 350 * i : i \in -1..MaxVolumeSteps}
      [] key = "recent_ratings_30d" -> {10 * i : i \in -1..MaxRecentSteps}
      [] key = "top_10" -> -1..MaxTop10
      [] key = "top_50" -> {5 * i : i \in -1..MaxTop50Steps}
      [] key = "top_100" -> {10 * i : i \in -1..MaxTop100Steps}
      [] key = "improving_keywords" -> -1..MaxImproving
      [] key = "impression_to_install" -> -1..MaxRate
      [] key = "downloads_last_30_days" ->
            {t + i : t \in {100, 1000, 10000}, i \in 0..MaxDownloadsOver}
      [] key = "downloads_trend" -> {"up", "stable", "down"}
      [] key = "crash_rate" -> {50 * i : i \in -1..MaxCrashSteps}
      [] key = "anr_rate" -> {10 * i : i \in -1..MaxAnrSteps}
      [] key = "battery_impact" -> {100 * i : i \in -1..MaxBatterySteps}
      [] key = "has_captions" -> BOOLEAN
      [] key = "has_video" -> BOOLEAN
      [] key = "cpp_count" -> -1..MaxCpp

\* the bundles a caller may pass to scorer f next
NextBundles(f) ==
    IF fn # f THEN {EmptyBundle}
    ELSE {args}
         \cup UNION {{Put(args, key, value) : value \in Values(key)} : key \in ScorerKeys[f]}
         \cup {Del(args, key) : key \in DOMAIN args}

Call(f, bundle, result) ==
    /\ fn' = f
    /\ args' = bundle
    /\ ret' = result
    /\ UNCHANGED <<scorer_vars, analyzed_keywords, env_vars>>

ScoreMetadataQuality ==
    \E b \in NextBundles("score_metadata_quality") :
        Call("score_metadata_quality", b, score_metadata_quality(b))

ScoreRatingsReviews ==
    \E b \in NextBundles("score_ratings_reviews") :
        Call("score_ratings_reviews", b, score_ratings_reviews(b))

ScoreKeywordPerformance ==
    \E b \in NextBundles("score_keyword_performance") :
        Call("score_keyword_performance", b, score_keyword_performance(b))

ScoreConversionMetrics ==
    \E b \in NextBundles("score_conversion_metrics") :
        Call("score_conversion_metrics", b, score_conversion_metrics(b))

ScoreTechnicalPerformance ==
    \E b \in NextBundles("score_technical_performance") :
        Call("score_technical_performance", b, score_technical_performance(b))

ScoreVisualOptimization ==
    \E b \in NextBundles("score_visual_optimization") :
        Call("score_visual_optimization", b, score_visual_optimization(b))

InitScorers == Construct(None) /\ ConstructAnalyzer /\ Run(<<>>)

NextScorers ==
    \/ ScoreMetadataQuality
    \/ ScoreRatingsReviews
    \/ ScoreKeywordPerformance
    \/ ScoreConversionMetrics
    \/ ScoreTechnicalPerformance
    \/ ScoreVisualOptimization

SpecScorers == InitScorers /\ [][NextScorers]_vars

-----------------------------------------------------------------------------
(* The keyword analyzer (keyword_analyzer.py): class tables and the scores of
   one keyword.  search_volume and competing_apps are integers,
   relevance_score is in thousandths. *)

COMPETITION_THRESHOLDS == [low |-> 1000, medium |-> 5000, high |-> 10000]

VOLUME_CATEGORIES ==
    [very_low |-> 1000, low |-> 5000, medium |-> 20000, high |-> 100000, very_high |-> 500000]

\* str.split(): the maximal runs of characters other than the blank
RECURSIVE SplitScan(_, _, _, _)
SplitScan(s, i, word, words) ==
    IF i > Len(s) THEN (IF word = "" THEN words ELSE Append(words, word))
    ELSE IF SubSeq(s, i, i) = " "
         THEN SplitScan(s, i + 1, "", IF word = "" THEN words ELSE Append(words, word))
         ELSE SplitScan(s, i + 1, word \o SubSeq(s, i, i), words)

split(s) == SplitScan(s, 1, "", <<>>)

_calculate_competition_level(competing_apps) ==
    IF competing_apps < COMPETITION_THRESHOLDS.low THEN "low"
    ELSE IF competing_apps < COMPETITION_THRESHOLDS.medium THEN "medium"
    ELSE IF competing_apps < COMPETITION_THRESHOLDS.high THEN "high"
    ELSE "very_high"

_categorize_search_volume(search_volume) ==
    IF search_volume < VOLUME_CATEGORIES.very_low THEN "very_low"
    ELSE IF search_volume < VOLUME_CATEGORIES.low THEN "low"
    ELSE IF search_volume < VOLUME_CATEGORIES.medium THEN "medium"
    ELSE IF search_volume < VOLUME_CATEGORIES.high THEN "high"
    ELSE "very_high"

_calculate_keyword_difficulty_noguard(search_volume, competing_apps) ==
    LET competition_factor == Min(Div(competing_apps, 50000), Pts(1))
        volume_factor == Min(Div(search_volume, 1000000), Pts(1))
        difficulty == ((competition_factor * 7 + volume_factor * 3) * 100) \div 10
    IN  Round1(difficulty)

\* (competition_factor * 0.7 + volume_factor * 0.3) * 100, the tenths taken
\* last so that the division is exact
_calculate_keyword_difficulty(search_volume, competing_apps) ==
    IF competing_apps = 0 THEN 0
    ELSE
        LET competition_factor == Min(Div(competing_apps, 50000), Pts(1))
            volume_factor == Min(Div(search_volume, 1000000), Pts(1))
            difficulty == ((competition_factor * 7 + volume_factor * 3) * 100) \div 10
        IN  Round1(difficulty)

_calculate_potential_score_nofloor(search_volume, competing_apps, relevance_score) ==
    LET volume_score == Min(Div(search_volume, 100000) * 40, Pts(40))
        competition_score ==
            IF competing_apps > 0 THEN Pts(30) - Div(competing_apps, 500) ELSE Pts(30)
        relevance_points == Thousandths(relevance_score) * 30
        total_score == volume_score + competition_score + relevance_points
    IN  Round1(Min(total_score, Pts(100)))

_calculate_potential_score(search_volume, competing_apps, relevance_score) ==
    LET volume_score == Min(Div(search_volume, 100000) * 40, Pts(40))
        competition_score ==
            IF competing_apps > 0 THEN Max(Pts(30) - Div(competing_apps, 500), 0) ELSE Pts(30)
        relevance_points == Thousandths(relevance_score) * 30
        total_score == volume_score + competition_score + relevance_points
    IN  Round1(Min(total_score, Pts(100)))

_generate_recommendation_gate_last(potential_score, difficulty_score, relevance_score) ==
    IF potential_score >= Pts(70) THEN "High priority - target immediately"
    ELSE IF relevance_score < 500 THEN "Low relevance - avoid targeting"
    ELSE IF potential_score >= Pts(50)
         THEN IF difficulty_score < Pts(50)
              THEN "Good opportunity - include in metadata"
              ELSE "Competitive - use in description, not title"
    ELSE IF potential_score >= Pts(30) THEN "Secondary keyword - use for long-tail variations"
    ELSE "Low potential - deprioritize"

_generate_recommendation(potential_score, difficulty_score, relevance_score) ==
    IF relevance_score < 500 THEN "Low relevance - avoid targeting"
    ELSE IF potential_score >= Pts(70) THEN "High priority - target immediately"
    ELSE IF potential_score >= Pts(50)
         THEN IF difficulty_score < Pts(50)
              THEN "Good opportunity - include in metadata"
              ELSE "Competitive - use in description, not title"
    ELSE IF potential_score >= Pts(30) THEN "Secondary keyword - use for long-tail variations"
    ELSE "Low potential - deprioritize"

\* the analysis record analyze_keyword builds and returns
analyze_keyword(keyword, search_volume, competing_apps, relevance_score) ==
    LET competition_level == _calculate_competition_level(competing_apps)
        volume_category == _categorize_search_volume(search_volume)
        difficulty_score == _calculate_keyword_difficulty(search_volume, competing_apps)
        potential_score ==
            _calculate_potential_score(search_volume, competing_apps, relevance_score)
    IN  [keyword           |-> keyword,
         search_volume     |-> search_volume,
         volume_category   |-> volume_category,
         competing_apps    |-> competing_apps,
         competition_level |-> competition_level,
         relevance_score   |-> relevance_score,
         difficulty_score  |-> difficulty_score,
         potential_score   |-> potential_score,
         recommendation    |->
            _generate_recommendation(potential_score, difficulty_score, relevance_score),
         keyword_length    |-> Len(split(keyword)),
         is_long_tail      |-> Len(split(keyword)) >= 3]

\* the arguments of one analyze_keyword call, and one element of keywords_data
KwData(keyword, search_volume, competing_apps, relevance_score) ==
    [keyword |-> keyword, search_volume |-> search_volume,
     competing_apps |-> competing_apps, relevance_score |-> relevance_score]

\* self.analyzed_keywords[keyword] = analysis
store_normalized(cache, analysis) == Put(cache, str_lower(analysis.keyword), analysis)

store(cache, analysis) == Put(cache, analysis.keyword, analysis)

\* the whole call analyzer.analyze_keyword(**a): the record is stored under the
\* keyword text and returned
AnalyzeKeywordCall(a) ==
    /\ fn' = "analyze_keyword"
    /\ args' = a
    /\ ret' = analyze_keyword(a.keyword, a.search_volume, a.competing_apps, a.relevance_score)
    /\ analyzed_keywords' = store(analyzed_keywords, ret')
    /\ UNCHANGED <<scorer_vars, hash_order, optimizer, threads>>

-----------------------------------------------------------------------------
(* Specification of the keyword scores: analyze_keyword is called on one
   keyword with every combination of a grid of search volumes, competing-app
   counts and relevance scores.  The grids hold each threshold of the
   analyzer, values on both sides of it, and values past each cap; between
   two calls the caller changes one argument. *)

VolumeGrid ==
    <<0, 500, 1000, 4500, 5500, 20000, 50000, 99500, 100000, 500000, 1000000, 1500000, 2000000>>

CompetingGrid ==
    <<0, 50, 950, 1000, 2000, 5000, 10000, 15000, 20000, 50000, 60000, 70000>>

RelevanceGrid == <<0, 300, 499, 500, 900, 1000, 333, 1500, 700>>

MaxVolumes == 12
MaxCompeting == 11
MaxRelevances == 8

GridKeyword == "habit tracker app"

\* the arguments of the next call: the first call passes the defaults, a later
\* call changes one argument of the call before
NextGridArgs ==
    IF fn # "analyze_keyword" THEN {KwData(GridKeyword, 0, 0, 0)}
    ELSE {[args EXCEPT !.search_volume = VolumeGrid[v]] : v \in 1..MaxVolumes}
         \cup {[args EXCEPT !.competing_apps = CompetingGrid[c]] : c \in 1..MaxCompeting}
         \cup {[args EXCEPT !.relevance_score = RelevanceGrid[r]] : r \in 1..MaxRelevances}

AnalyzeKeywordOnGrid == \E a \in NextGridArgs : AnalyzeKeywordCall(a) /\ UNCHANGED earlier

InitAnalyze == Construct(None) /\ ConstructAnalyzer /\ Run(<<>>)

NextAnalyze == AnalyzeKeywordOnGrid

SpecAnalyze == InitAnalyze /\ [][NextAnalyze]_vars

-----------------------------------------------------------------------------
(* The keyword analyzer: compare_keywords *)

\* the elements the loop of compare_keywords analyzes: all of them, or those
\* before the first element without a 'keyword' key (kw_data['keyword'] raises
\* KeyError there)
RECURSIVE Analyzable(_)
Analyzable(keywords_data) ==
    IF keywords_data = <<>> \/ "keyword" \notin DOMAIN Head(keywords_data) THEN <<>>
    ELSE <<Head(keywords_data)>> \o Analyzable(Tail(keywords_data))

\* the analysis of one element: missing numbers default to 0 and 0.0
analysis_of(kw_data) ==
    analyze_keyword(kw_data.keyword, Get(kw_data, "search_volume", 0),
                    Get(kw_data, "competing_apps", 0), Get(kw_data, "relevance_score", 0))

analyses_of(keywords_data) ==
    [i \in 1..Len(Analyzable(keywords_data)) |-> analysis_of(keywords_data[i])]

\* the cache after the analyses were stored one after the other
RECURSIVE store_all(_, _)
store_all(cache, analyses) ==
    IF analyses = <<>> THEN cache ELSE store_all(store(cache, Head(analyses)), Tail(analyses))

InsertByPotential_before_equal(x, s) ==
    LET before == SelectSeq(s, LAMBDA y : y.potential_score > x.potential_score)
        after == SelectSeq(s, LAMBDA y : y.potential_score <= x.potential_score)
    IN  before \o <<x>> \o after

\* x put into the list s, which is in non-increasing order of potential_score:
\* after every entry whose potential is at least its own
InsertByPotential(x, s) ==
    LET before == SelectSeq(s, LAMBDA y : y.potential_score >= x.potential_score)
        after == SelectSeq(s, LAMBDA y : y.potential_score < x.potential_score)
    IN  before \o <<x>> \o after

\* sorted(analyses, key = potential_score, reverse = True): a stable sort
RECURSIVE RankFrom(_, _)
RankFrom(analyses, ranked) ==
    IF analyses = <<>> THEN ranked
    ELSE RankFrom(Tail(analyses), InsertByPotential(Head(analyses), ranked))

sorted_by_potential(analyses) == RankFrom(analyses, <<>>)

\* the parts of the summary text; the counts are those of the uncut lists
_generate_comparison_summary(primary_keywords, secondary_keywords, long_tail_keywords) ==
    <<[text |-> "Identified high-priority primary keywords", n |-> Len(primary_keywords)]>>
    \o (IF primary_keywords # <<>>
        THEN <<[text |-> "Top recommendation", keyword |-> primary_keywords[1].keyword,
                potential_score |-> primary_keywords[1].potential_score]>>
        ELSE <<>>)
    \o <<[text |-> "Found secondary keywords", n |-> Len(secondary_keywords)],
         [text |-> "Discovered long-tail opportunities", n |-> Len(long_tail_keywords)]>>

KeyError == [raised |-> "KeyError"]

compare_keywords_uncut(keywords_data) ==
    IF Len(Analyzable(keywords_data)) < Len(keywords_data) THEN KeyError
    ELSE
        LET analyses == analyses_of(keywords_data)
            ranked_keywords == sorted_by_potential(analyses)
            primary_keywords ==
                SelectSeq(ranked_keywords,
                          LAMBDA kw : kw.potential_score >= Pts(70) /\ kw.relevance_score >= 800)
            secondary_keywords ==
                SelectSeq(ranked_keywords,
                          LAMBDA kw : /\ Pts(50) <= kw.potential_score
                                      /\ kw.potential_score < Pts(70)
                                      /\ kw.relevance_score >= 600)
            long_tail_keywords ==
                SelectSeq(ranked_keywords, LAMBDA kw : kw.is_long_tail /\ kw.relevance_score >= 700)
        IN  [total_keywords_analyzed |-> Len(analyses),
             ranked_keywords         |-> ranked_keywords,
             primary_keywords        |-> primary_keywords,
             secondary_keywords      |-> Take(secondary_keywords, 10),
             long_tail_keywords      |-> Take(long_tail_keywords, 10),
             summary                 |->
                _generate_comparison_summary(primary_keywords, secondary_keywords,
                                             long_tail_keywords)]

\* the report compare_keywords returns, or the KeyError it raises
compare_keywords(keywords_data) ==
    IF Len(Analyzable(keywords_data)) < Len(keywords_data) THEN KeyError
    ELSE
        LET analyses == analyses_of(keywords_data)
            ranked_keywords == sorted_by_potential(analyses)
            primary_keywords ==
                SelectSeq(ranked_keywords,
                          LAMBDA kw : kw.potential_score >= Pts(70) /\ kw.relevance_score >= 800)
            secondary_keywords ==
                SelectSeq(ranked_keywords,
                          LAMBDA kw : /\ Pts(50) <= kw.potential_score
                                      /\ kw.potential_score < Pts(70)
                                      /\ kw.relevance_score >= 600)
            long_tail_keywords ==
                SelectSeq(ranked_keywords, LAMBDA kw : kw.is_long_tail /\ kw.relevance_score >= 700)
        IN  [total_keywords_analyzed |-> Len(analyses),
             ranked_keywords         |-> ranked_keywords,
             primary_keywords        |-> Take(primary_keywords, 5),
             secondary_keywords      |-> Take(secondary_keywords, 10),
             long_tail_keywords      |-> Take(long_tail_keywords, 10),
             summary                 |->
                _generate_comparison_summary(primary_keywords, secondary_keywords,
                                             long_tail_keywords)]

-----------------------------------------------------------------------------
(* Specification of the keyword cache and the comparison: analyze_keyword and
   compare_keywords are called on one analyzer.  The keywords differ in case
   and in their number of words; the elements give a keyword a primary, a
   secondary or a default analysis, and one element has no 'keyword' key.  A
   list passed to compare_keywords is empty, or the list of the comparison
   before with one element appended: any element while the list is short, a
   repetition of its last element afterwards. *)

Kw_habit == "habit tracker"

Kw_Habit == "Habit Tracker"

Kw_long == "free habit tracker app"

KeywordElements ==
    {KwData(Kw_habit, 100000, 0, 900),
     KwData(Kw_Habit, 50000, 5000, 700),
     KwData(Kw_long, 100000, 0, 900),
     KwData(Kw_long, 50000, 5000, 700),
     [keyword |-> Kw_habit],
     [search_volume |-> 100]}

MaxPrefix == 3
MaxListLen == 11

\* analyze_keyword(keyword, search_volume = 0, competing_apps = 0, relevance_score = 0.0)
AnalyzeKeyword ==
    \E e \in KeywordElements :
        /\ "keyword" \in DOMAIN e
        /\ AnalyzeKeywordCall(KwData(e.keyword, Get(e, "search_volume", 0),
                                     Get(e, "competing_apps", 0), Get(e, "relevance_score", 0)))
        /\ UNCHANGED earlier

NextLists ==
    IF fn # "compare_keywords" THEN {<<>>}
    ELSE {<<>>}
         \cup (IF Len(args) < MaxPrefix THEN {Append(args, e) : e \in KeywordElements}
               ELSE IF Len(args) < MaxListLen THEN {Append(args, args[Len(args)])}
               ELSE {})

CompareKeywords ==
    \E keywords_data \in NextLists :
        /\ fn' = "compare_keywords"
        /\ args' = keywords_data
        /\ ret' = compare_keywords(keywords_data)
        /\ analyzed_keywords' = store_all(analyzed_keywords, analyses_of(keywords_data))
        /\ UNCHANGED <<scorer_vars, env_vars>>

InitKeywords == Construct(None) /\ ConstructAnalyzer /\ Run(<<>>)

NextKeywords == AnalyzeKeyword \/ CompareKeywords

SpecKeywords == InitKeywords /\ [][NextKeywords]_vars

-----------------------------------------------------------------------------
(* The keyword analyzer: intent clusters, natural-language queries and cluster
   scores *)

\* the seed words of each intent, in the order of the class dictionary
INTENT_CATEGORIES ==
    <<[intent |-> "track",
       words |-> <<"track", "tracking", "monitor", "log", "record", "measure", "count", "diary">>],
      [intent |-> "manage",
       words |-> <<"manage", "management", "organize", "organizer", "control", "handle",
                   "coordinate">>],
      [intent |-> "plan",
       words |-> <<"plan", "planner", "planning", "schedule", "scheduler", "calendar", "agenda",
                   "timeline">>],
      [intent |-> "create",
       words |-> <<"create", "creator", "make", "maker", "build", "builder", "design",
                   "designer", "edit", "editor">>],
      [intent |-> "learn",
       words |-> <<"learn", "learning", "study", "education", "course", "tutorial", "teach",
                   "training">>],
      [intent |-> "find",
       words |-> <<"find", "finder", "search", "discover", "locate", "lookup", "browse",
                   "explore">>],
      [intent |-> "compare",
       words |-> <<"compare", "comparison", "versus", "review", "rate", "rating", "rank",
                   "ranking">>],
      [intent |-> "share",
       words |-> <<"share", "sharing", "social", "connect", "collaborate", "collaboration",
                   "team", "group">>],
      [intent |-> "save",
       words |-> <<"save", "saving", "budget", "budgeting", "money", "finance", "financial",
                   "expense", "cost">>],
      [intent |-> "health",
       words |-> <<"health", "healthy", "fitness", "workout", "exercise", "diet", "nutrition",
                   "wellness", "meditation">>],
      [intent |-> "communicate",
       words |-> <<"chat", "message", "messaging", "call", "calling", "video", "voice", "talk">>],
      [intent |-> "automate",
       words |-> <<"automate", "automation", "automatic", "auto", "smart", "ai", "intelligent",
                   "reminder">>]>>

\* set(s) of a list s
ToSet(s) == {s[i] : i \in 1..Len(s)}

\* self.INTENT_CATEGORIES.get(intent, [])
intent_words_of(intent) ==
    LET found == SelectSeq(INTENT_CATEGORIES, LAMBDA c : c.intent = intent)
    IN  IF found = <<>> THEN <<>> ELSE found[1].words

\* the characters \w matches in ASCII text
WordChars ==
    {"a", "b", "c", "d", "e", "f", "g", "h", "i", "j", "k", "l", "m", "n", "o", "p", "q", "r",
     "s", "t", "u", "v", "w", "x", "y", "z", "A", "B", "C", "D", "E", "F", "G", "H", "I", "J",
     "K", "L", "M", "N", "O", "P", "Q", "R", "S", "T", "U", "V", "W", "X", "Y", "Z", "0", "1",
     "2", "3", "4", "5", "6", "7", "8", "9", "_"}

\* re.findall(r'\w+', s): the maximal runs of word characters, in order
RECURSIVE WordScan(_, _, _, _)
WordScan(s, i, word, words) ==
    IF i > Len(s) THEN (IF word = "" THEN words ELSE Append(words, word))
    ELSE IF SubSeq(s, i, i) \notin WordChars
         THEN WordScan(s, i + 1, "", IF word = "" THEN words ELSE Append(words, word))
         ELSE WordScan(s, i + 1, word \o SubSeq(s, i, i), words)

findall_words(s) == WordScan(s, 1, "", <<>>)

UpperChar(c) ==
    CASE c = "a" -> "A" [] c = "b" -> "B" [] c = "c" -> "C" [] c = "d" -> "D"
      [] c = "e" -> "E" [] c = "f" -> "F" [] c = "g" -> "G" [] c = "h" -> "H"
      [] c = "i" -> "I" [] c = "j" -> "J" [] c = "k" -> "K" [] c = "l" -> "L"
      [] c = "m" -> "M" [] c = "n" -> "N" [] c = "o" -> "O" [] c = "p" -> "P"
      [] c = "q" -> "Q" [] c = "r" -> "R" [] c = "s" -> "S" [] c = "t" -> "T"
      [] c = "u" -> "U" [] c = "v" -> "V" [] c = "w" -> "W" [] c = "x" -> "X"
      [] c = "y" -> "Y" [] c = "z" -> "Z"
      [] OTHER -> c

\* str.title(): a letter that follows no letter is upper-cased, the others are
\* lower-cased
RECURSIVE TitleFrom(_, _, _)
TitleFrom(s, i, after_letter) ==
    IF i > Len(s) THEN ""
    ELSE LET c == SubSeq(s, i, i)
             letter == UpperChar(c) # c \/ LowerChar(c) # c
         IN  (IF after_letter THEN LowerChar(c) ELSE UpperChar(c)) \o TitleFrom(s, i + 1, letter)

title(s) == TitleFrom(s, 1, FALSE)

\* ' '.join(words)
RECURSIVE join(_)
join(words) ==
    IF words = <<>> THEN ""
    ELSE IF Len(words) = 1 THEN words[1]
    ELSE words[1] \o " " \o join(Tail(words))

\* the number of the words (a set) that are seed words of the intent
overlap_of(words, category) == Cardinality(words \cap ToSet(category.words))

\* the intent of a keyword: the first category of the table with the largest
\* overlap, None when no category shares a word with it
RECURSIVE BestFrom(_, _, _, _)
BestFrom(words, i, matched_intent, best_overlap) ==
    IF i > Len(INTENT_CATEGORIES) THEN matched_intent
    ELSE LET overlap == overlap_of(words, INTENT_CATEGORIES[i])
         IN  IF overlap > best_overlap
             THEN BestFrom(words, i + 1, Some(INTENT_CATEGORIES[i].intent), overlap)
             ELSE BestFrom(words, i + 1, matched_intent, best_overlap)

RECURSIVE BestFrom_last_tie(_, _, _, _)
BestFrom_last_tie(words, i, matched_intent, best_overlap) ==
    IF i > Len(INTENT_CATEGORIES) THEN matched_intent
    ELSE LET overlap == overlap_of(words, INTENT_CATEGORIES[i])
         IN  IF overlap > 0 /\ overlap >= best_overlap
             THEN BestFrom_last_tie(words, i + 1, Some(INTENT_CATEGORIES[i].intent), overlap)
             ELSE BestFrom_last_tie(words, i + 1, matched_intent, best_overlap)

matched_intent_of_last_tie(keyword) ==
    BestFrom_last_tie(ToSet(findall_words(str_lower(keyword))), 1, None, 0)

matched_intent_of(keyword) ==
    BestFrom(ToSet(findall_words(str_lower(keyword))), 1, None, 0)

\* the query templates: the text before and after {obj}
Template(before, after) == [before |-> before, after |-> after]

templates ==
    [track |-> <<Template("apps to help me track ", ""), Template("best ", " tracking app"),
                 Template("how to track my ", " on my phone")>>,
     manage |-> <<Template("apps to help me manage ", ""), Template("best ", " management app"),
                  Template("how to organize my ", "")>>,
     plan |-> <<Template("apps to help me plan ", ""), Template("best ", " planner app"),
                Template("how to schedule my ", "")>>,
     create |-> <<Template("apps to create ", ""), Template("best ", " creator app"),
                  Template("easy way to make ", "")>>,
     learn |-> <<Template("apps to learn ", ""), Template("best ", " learning app"),
                 Template("how to study ", " on my phone")>>,
     find |-> <<Template("apps to find ", ""), Template("best app for finding ", ""),
                Template("where to find ", "")>>,
     compare |-> <<Template("apps to compare ", ""), Template("best ", " comparison app"),
                   Template("how to compare ", "")>>,
     share |-> <<Template("apps to share ", ""), Template("best ", " sharing app"),
                 Template("how to collaborate on ", "")>>,
     save |-> <<Template("apps to save ", ""), Template("best ", " budgeting app"),
                Template("how to manage my ", "")>>,
     health |-> <<Template("apps for ", ""), Template("best ", " app"),
                  Template("how to improve my ", "")>>,
     communicate |-> <<Template("apps for ", ""), Template("best ", " app"),
                       Template("how to ", " for free")>>,
     automate |-> <<Template("apps to automate ", ""), Template("best smart ", " app"),
                    Template("how to automate ", "")>>]

generic_templates == <<Template("apps for ", ""), Template("best ", " app")>>

\* template.format(obj = obj)
format(template, obj) == template.before \o obj \o template.after

\* the object term of a keyword: its words that are no seed word of the intent
\* and have more than two characters, joined by blanks ("" when none is left)
object_of(intent, kw) ==
    LET words == findall_words(str_lower(kw))
        intent_words == ToSet(intent_words_of(intent))
    IN  join(SelectSeq(words, LAMBDA w : w \notin intent_words /\ Len(w) > 2))

objects_of(intent, keywords) ==
    {object_of(intent, keywords[i]) : i \in 1..Len(keywords)} \ {""}

\* list(objects) in a run that enumerates object terms in the given order
list_in(order, objects) == SelectSeq(order, LAMBDA o : o \in objects)

\* list(objects): the set enumerated in the order the interpreter gives it
list_of(objects) == list_in(hash_order, objects)

\* the nested loop over objects and templates, from object i and template j on
RECURSIVE QueriesFrom(_, _, _, _, _, _)
QueriesFrom(objs, intent_templates, i, j, queries, max_queries) ==
    IF i > Len(objs) THEN queries
    ELSE IF j > Len(intent_templates)
         THEN QueriesFrom(objs, intent_templates, i + 1, 1, queries, max_queries)
    ELSE LET query == format(intent_templates[j], objs[i])
         IN  IF query \in ToSet(queries)
             THEN QueriesFrom(objs, intent_templates, i, j + 1, queries, max_queries)
             ELSE IF Len(queries) + 1 >= max_queries THEN Append(queries, query)
             ELSE QueriesFrom(objs, intent_templates, i, j + 1, Append(queries, query),
                              max_queries)

\* the method in a run that enumerates object terms in the given order
natural_queries_in(order, intent, keywords, max_queries) ==
    LET intent_templates ==
            IF intent \in DOMAIN templates THEN templates[intent] ELSE generic_templates
        objects == objects_of(intent, keywords)
    IN  QueriesFrom(Take(list_in(order, objects), max_queries), intent_templates, 1, 1, <<>>,
                    max_queries)

generate_natural_queries(intent, keywords, max_queries) ==
    natural_queries_in(hash_order, intent, keywords, max_queries)

\* x * relevance, for a score x and a relevance in thousandths
Times(x, relevance) == (x \div 1000) * relevance + ((x % 1000) * relevance) \div 1000

\* data.get('search_volume', 0), data.get('competing_apps', 5000),
\* data.get('relevance_score', 0.5) for data = keyword_data.get(keyword, {})
data_of(keyword_data, keyword) ==
    LET data == Get(keyword_data, keyword, EmptyBundle)
    IN  [volume |-> Get(data, "search_volume", 0),
         competition |-> Get(data, "competing_apps", 5000),
         relevance |-> Get(data, "relevance_score", 500)]

\* opportunity = (volume / competition) * relevance, or volume * relevance
opportunity_of(d) ==
    IF d.competition > 0 THEN Times(Div(d.volume, d.competition), d.relevance)
    ELSE Times(Pts(d.volume), d.relevance)

score_cluster_cached(keywords, keyword_data) ==
    IF keywords = <<>> THEN 0
    ELSE IF keyword_data.isNone \/ keyword_data.v = EmptyBundle
         THEN Min(Pts(Cardinality(DOMAIN analyzed_keywords) * 10), Pts(50))
    ELSE
        LET ds == [i \in 1..Len(keywords) |-> data_of(keyword_data.v, keywords[i])]
            count == Len(keywords)
            total_volume == SumSeq([i \in 1..count |-> ds[i].volume])
            total_relevance == SumSeq([i \in 1..count |-> Thousandths(ds[i].relevance)])
            total_opportunity == SumSeq([i \in 1..count |-> opportunity_of(ds[i])])
            volume_score == Min(Div(total_volume, 10000), Pts(30))
            relevance_score == (total_relevance \div count) * 30
            opportunity_score == Min(total_opportunity * 10, Pts(30))
            diversity_score == Min(Pts(count * 2), Pts(10))
        IN  Round1(volume_score + relevance_score + opportunity_score + diversity_score)

score_cluster_uncapped(keywords, keyword_data) ==
    IF keywords = <<>> THEN 0
    ELSE IF keyword_data.isNone \/ keyword_data.v = EmptyBundle
         THEN Min(Pts(Len(keywords) * 10), Pts(50))
    ELSE
        LET ds == [i \in 1..Len(keywords) |-> data_of(keyword_data.v, keywords[i])]
            count == Len(keywords)
            total_volume == SumSeq([i \in 1..count |-> ds[i].volume])
            total_relevance == SumSeq([i \in 1..count |-> Thousandths(ds[i].relevance)])
            total_opportunity == SumSeq([i \in 1..count |-> opportunity_of(ds[i])])
            volume_score == Min(Div(total_volume, 10000), Pts(30))
            relevance_score == (total_relevance \div count) * 30
            opportunity_score == total_opportunity * 10
            diversity_score == Min(Pts(count * 2), Pts(10))
        IN  Round1(volume_score + relevance_score + opportunity_score + diversity_score)

\* keyword_data is None, or a dict keyword -> data ('not keyword_data' holds for
\* None and for the empty dict)
score_cluster(keywords, keyword_data) ==
    IF keywords = <<>> THEN 0
    ELSE IF keyword_data.isNone \/ keyword_data.v = EmptyBundle
         THEN Min(Pts(Len(keywords) * 10), Pts(50))
    ELSE
        LET ds == [i \in 1..Len(keywords) |-> data_of(keyword_data.v, keywords[i])]
            count == Len(keywords)
            total_volume == SumSeq([i \in 1..count |-> ds[i].volume])
            total_relevance == SumSeq([i \in 1..count |-> Thousandths(ds[i].relevance)])
            total_opportunity == SumSeq([i \in 1..count |-> opportunity_of(ds[i])])
            volume_score == Min(Div(total_volume, 10000), Pts(30))
            relevance_score == (total_relevance \div count) * 30
            opportunity_score == Min(total_opportunity * 10, Pts(30))
            diversity_score == Min(Pts(count * 2), Pts(10))
        IN  Round1(volume_score + relevance_score + opportunity_score + diversity_score)

\* the intents of the clusters, in the order their first keyword is met;
\* matched[i] is the intent matched by keyword i
RECURSIVE IntentsFrom(_, _)
IntentsFrom(matched, intents) ==
    IF matched = <<>> THEN intents
    ELSE LET m == Head(matched)
         IN  IntentsFrom(Tail(matched),
                         IF m.isNone \/ m.v \in ToSet(intents) THEN intents
                         ELSE Append(intents, m.v))

Where_once(keywords, keep) ==
    LET RECURSIVE From(_)
        From(i) == IF i > Len(keywords) THEN <<>>
                   ELSE (IF keep[i] /\ \A j \in 1..(i - 1) : keywords[j] # keywords[i]
                         THEN <<keywords[i]>> ELSE <<>>) \o From(i + 1)
    IN  From(1)

\* the keywords at the positions where keep holds
Where(keywords, keep) ==
    LET RECURSIVE From(_)
        From(i) == IF i > Len(keywords) THEN <<>>
                   ELSE (IF keep[i] THEN <<keywords[i]>> ELSE <<>>) \o From(i + 1)
    IN  From(1)

InsertByScore_before_equal(x, s) ==
    LET before == SelectSeq(s, LAMBDA y : y.combined_score > x.combined_score)
        after == SelectSeq(s, LAMBDA y : y.combined_score <= x.combined_score)
    IN  before \o <<x>> \o after

InsertByScore(x, s) ==
    LET before == SelectSeq(s, LAMBDA y : y.combined_score >= x.combined_score)
        after == SelectSeq(s, LAMBDA y : y.combined_score < x.combined_score)
    IN  before \o <<x>> \o after

\* result.sort(key = combined_score, reverse = True): a stable sort
RECURSIVE SortFrom(_, _)
SortFrom(clusters, sorted) ==
    IF clusters = <<>> THEN sorted
    ELSE SortFrom(Tail(clusters), InsertByScore(Head(clusters), sorted))

cluster_by_intent_cached(keywords, keyword_data) ==
    LET data == IF keyword_data.isNone THEN Some(analyzed_keywords) ELSE keyword_data
        matched == [i \in 1..Len(keywords) |-> matched_intent_of(keywords[i])]
        intents == IntentsFrom(matched, <<>>)
        unclustered == Where(keywords, [i \in 1..Len(keywords) |-> matched[i].isNone])
        intent_clusters ==
            [i \in 1..Len(intents) |->
                LET cluster_keywords ==
                        Where(keywords,
                              [j \in 1..Len(keywords) |-> matched[j] = Some(intents[i])])
                IN  [name |-> title(intents[i]) \o " Intent",
                     intent |-> intents[i],
                     keywords |-> cluster_keywords,
                     keyword_count |-> Len(cluster_keywords),
                     natural_queries |-> generate_natural_queries(intents[i], cluster_keywords, 5),
                     combined_score |-> score_cluster(cluster_keywords, data)]]
        general ==
            IF unclustered = <<>> THEN <<>>
            ELSE <<[name |-> "General",
                    intent |-> "general",
                    keywords |-> unclustered,
                    keyword_count |-> Len(unclustered),
                    natural_queries |-> <<>>,
                    combined_score |-> score_cluster(unclustered, data)]>>
    IN  SortFrom(intent_clusters \o general, <<>>)

cluster_by_intent(keywords, keyword_data) ==
    LET matched == [i \in 1..Len(keywords) |-> matched_intent_of(keywords[i])]
        intents == IntentsFrom(matched, <<>>)
        unclustered == Where(keywords, [i \in 1..Len(keywords) |-> matched[i].isNone])
        intent_clusters ==
            [i \in 1..Len(intents) |->
                LET cluster_keywords ==
                        Where(keywords,
                              [j \in 1..Len(keywords) |-> matched[j] = Some(intents[i])])
                IN  [name |-> title(intents[i]) \o " Intent",
                     intent |-> intents[i],
                     keywords |-> cluster_keywords,
                     keyword_count |-> Len(cluster_keywords),
                     natural_queries |-> generate_natural_queries(intents[i], cluster_keywords, 5),
                     combined_score |-> score_cluster(cluster_keywords, keyword_data)]]
        general ==
            IF unclustered = <<>> THEN <<>>
            ELSE <<[name |-> "General",
                    intent |-> "general",
                    keywords |-> unclustered,
                    keyword_count |-> Len(unclustered),
                    natural_queries |-> <<>>,
                    combined_score |-> score_cluster(unclustered, keyword_data)]>>
    IN  SortFrom(intent_clusters \o general, <<>>)

-----------------------------------------------------------------------------
(* Specification of the pipelines side by side: one analyzer and one scorer in
   one run of the interpreter.  The analyzer analyzes a keyword, clusters
   keyword lists with and without per-keyword data, scores clusters and
   generates queries directly; the scorer reports on an app.  The run
   enumerates a set of object terms in an order fixed when it starts.  A call
   that is not an analysis may be remembered (once), so that a later call can
   be compared with it. *)

Kw_track == "track expenses"

ClusterLists ==
    {<<>>,
     <<Kw_track, "manage team", "track expenses daily">>,
     <<"Budget Planner", "sudoku", "track habits", "Track money budget">>,
     <<"track habits", Kw_track, "track habits">>,
     <<"sudoku">>}

ScoredList == <<Kw_track, "manage team", "track expenses daily">>

\* six keywords, each with a large volume and full relevance
LongList ==
    <<Kw_track, "manage team", "track expenses daily", "sudoku", "track habits",
      "Budget Planner">>

LongListData ==
    [k \in ToSet(LongList) |->
        [search_volume |-> 100000, competing_apps |-> 2000, relevance_score |-> 1000]]

ClusterData ==
    {None,
     Some(Kw_track :> [search_volume |-> 50000, competing_apps |-> 2000, relevance_score |-> 900]
          @@ "manage team" :> [search_volume |-> 100, competing_apps |-> 0])}

QueryCalls ==
    {[intent |-> "track", keywords |-> <<"track habits", Kw_track>>, max_queries |-> 5],
     [intent |-> "track", keywords |-> <<"track habits", Kw_track>>, max_queries |-> 2],
     [intent |-> "general", keywords |-> <<"sudoku">>, max_queries |-> 5],
     [intent |-> "plan", keywords |-> <<"Budget Planner">>, max_queries |-> 1]}

\* every object term a call of this specification can meet
ObjectTerms ==
    UNION {objects_of(c.intent, l) : c \in ToSet(INTENT_CATEGORIES), l \in ClusterLists}
    \cup UNION {objects_of(q.intent, q.keywords) : q \in QueryCalls}

RECURSIVE SeqOf(_)
SeqOf(S) == IF S = {} THEN <<>> ELSE LET x == CHOOSE y \in S : TRUE IN <<x>> \o SeqOf(S \ {x})

Reverse(s) == [i \in 1..Len(s) |-> s[Len(s) + 1 - i]]

\* the enumeration orders of the runs considered: an order and its reverse, so
\* that each two object terms are met in both orders
HashOrders == {SeqOf(ObjectTerms), Reverse(SeqOf(ObjectTerms))}

\* the call just made is remembered, with the cache it ran beside, if none was
\* remembered before
Remember ==
    \/ earlier' = earlier
    \/ /\ earlier.isNone
       /\ earlier' = Some([fn |-> fn', args |-> args', ret |-> ret',
                           analyzed_keywords |-> analyzed_keywords])

\* a call of the analyzer that only computes
Compute(f, a, result) ==
    /\ fn' = f
    /\ args' = a
    /\ ret' = result
    /\ Remember
    /\ UNCHANGED <<scorer_vars, analyzed_keywords, hash_order, optimizer, threads>>

AnalyzeClusteredKeyword ==
    \E d \in {KwData(Kw_track, 50000, 2000, 900), KwData(Kw_track, 100, 0, 900)} :
        AnalyzeKeywordCall(d) /\ UNCHANGED earlier

ClusterByIntent ==
    \E keywords \in ClusterLists, keyword_data \in ClusterData :
        Compute("cluster_by_intent", [keywords |-> keywords, keyword_data |-> keyword_data],
                cluster_by_intent(keywords, keyword_data))

ScoreCalls ==
    ({<<>>, ScoredList} \X (ClusterData \cup {Some(EmptyBundle)}))
    \cup ({LongList} \X {None, Some(LongListData)})

ScoreCluster ==
    \E <<keywords, keyword_data>> \in ScoreCalls :
        Compute("score_cluster", [keywords |-> keywords, keyword_data |-> keyword_data],
                score_cluster(keywords, keyword_data))

GenerateNaturalQueries ==
    \E q \in QueryCalls :
        Compute("generate_natural_queries", q,
                generate_natural_queries(q.intent, q.keywords, q.max_queries))

\* the scorer reports on an app without data, or with ratings only
ReportOnApp ==
    \E a \in {NoData, [NoData EXCEPT !.ratings = Ratings(450, 5000, 101)]} :
        /\ ReportCall(a)
        /\ Remember
        /\ UNCHANGED <<analyzed_keywords, hash_order, optimizer, threads>>

InitPipelines ==
    \E order \in HashOrders : Construct(None) /\ ConstructAnalyzer /\ Run(order)

NextPipelines ==
    \/ AnalyzeClusteredKeyword
    \/ ClusterByIntent
    \/ ScoreCluster
    \/ GenerateNaturalQueries
    \/ ReportOnApp

SpecPipelines == InitPipelines /\ [][NextPipelines]_vars

-----------------------------------------------------------------------------
(* Specification of two callers on one scorer: each caller runs
   calculate_overall_score in a thread of its own, without locking.  The
   method works on its arguments and locals except where it writes
   self.score_breakdown (line 146) and reads it back (lines 199, 202, 203); a
   thread can be preempted between any two of these, so the call is split
   there.  threads[t] is the frame of the call of caller t while it is inside
   the method. *)

Callers == {"A", "B"}

ThreadInputs ==
    {NoData,
     [NoData EXCEPT !.ratings = Ratings(450, 5000, 101)],
     [NoData EXCEPT !.metadata = Metadata(2, 2000, 100), !.technical_data = Some(<<>>)]}

Frame(pc, a, at_199, at_202) == [pc |-> pc, a |-> a, at_199 |-> at_199, at_202 |-> at_202]

At(t, pc) == t \in DOMAIN threads /\ threads[t].pc = pc

\* lines 116-143: the call is entered and the scores are computed from the
\* arguments into locals
Enter ==
    \E t \in Callers \ DOMAIN threads, a \in ThreadInputs :
        /\ threads' = Put(threads, t, Frame("line 146", a, EmptyBundle, EmptyBundle))
        /\ UNCHANGED <<scorer_vars, fn, args, ret, analyzed_keywords, hash_order, optimizer, earlier>>

\* line 146: self.score_breakdown = {...}
StoreBreakdown ==
    \E t \in Callers :
        /\ At(t, "line 146")
        /\ score_breakdown' = stored_breakdown(threads[t].a)
        /\ threads' = [threads EXCEPT ![t].pc = "line 199"]
        /\ UNCHANGED <<class_attrs, ctor_platform, platform, _active_weights>>
        /\ UNCHANGED <<fn, args, ret, analyzed_keywords, hash_order, optimizer, earlier>>

\* lines 177-199: the recommendations are generated from the locals, then
\* 'score_breakdown': self.score_breakdown
ReadBreakdown ==
    \E t \in Callers :
        /\ At(t, "line 199")
        /\ threads' = [threads EXCEPT ![t].pc = "line 202", ![t].at_199 = score_breakdown]
        /\ UNCHANGED <<scorer_vars, fn, args, ret, analyzed_keywords, hash_order, optimizer, earlier>>

\* line 202: 'strengths': self._identify_strengths(self.score_breakdown)
IdentifyStrengths ==
    \E t \in Callers :
        /\ At(t, "line 202")
        /\ threads' = [threads EXCEPT ![t].pc = "line 203", ![t].at_202 = score_breakdown]
        /\ UNCHANGED <<scorer_vars, fn, args, ret, analyzed_keywords, hash_order, optimizer, earlier>>

\* lines 203-204: 'weaknesses': self._identify_weaknesses(self.score_breakdown),
\* and the report is returned to the caller
IdentifyWeaknessesAndReturn ==
    \E t \in Callers :
        /\ At(t, "line 203")
        /\ fn' = "calculate_overall_score"
        /\ args' = threads[t].a
        /\ ret' = report_of(threads[t].a, threads[t].at_199, threads[t].at_202, score_breakdown)
        /\ threads' = Del(threads, t)
        /\ UNCHANGED <<scorer_vars, analyzed_keywords, hash_order, optimizer, earlier>>

InitThreads == Construct(None) /\ ConstructAnalyzer /\ Run(<<>>)

NextThreads ==
    \/ Enter
    \/ StoreBreakdown
    \/ ReadBreakdown
    \/ IdentifyStrengths
    \/ IdentifyWeaknessesAndReturn

SpecThreads == InitThreads /\ [][NextThreads]_vars

-----------------------------------------------------------------------------
(* The metadata optimizer: construction and the keyword field *)

CHAR_LIMITS ==
    [apple |-> [title |-> 30, subtitle |-> 30, promotional_text |-> 170, description |-> 4000,
                keywords |-> 100, whats_new |-> 4000],
     google |-> [title |-> 50, short_description |-> 80, full_description |-> 4000]]

ValueError == [raised |-> "ValueError"]

\* platform not in ['apple', 'google']: the comparison is with the strings as
\* given, None included
platform_accepted_apple_only(p) == ~p.isNone /\ p.v = "apple"

platform_accepted(p) == ~p.isNone /\ p.v \in {"apple", "google"}

\* the object MetadataOptimizer(p) constructs
new_optimizer(p) == [platform |-> p.v, limits |-> CHAR_LIMITS[p.v]]

\* str.strip(): the string without its leading and trailing blanks
RECURSIVE strip(_)
strip(s) ==
    IF s = "" THEN ""
    ELSE IF SubSeq(s, 1, 1) = " " THEN strip(SubSeq(s, 2, Len(s)))
    ELSE IF SubSeq(s, Len(s), Len(s)) = " " THEN strip(SubSeq(s, 1, Len(s) - 1))
    ELSE s

\* sub in s, for strings
contains(s, sub) == \E i \in 1..(Len(s) - Len(sub) + 1) : SubSeq(s, i, i + Len(sub) - 1) = sub

\* the positions at which sub occurs in s
occurrences_of(s, sub) ==
    {i \in 1..(Len(s) - Len(sub) + 1) : SubSeq(s, i, i + Len(sub) - 1) = sub}

\* s.count(sub): the occurrences of sub in s that do not overlap, taken from
\* the left, each search starting behind the occurrence before it
RECURSIVE count_from(_, _, _)
count_from(s, sub, i) ==
    LET later == {j \in occurrences_of(s, sub) : j >= i}
        next == CHOOSE j \in later : \A k \in later : j <= k
    IN  IF sub = "" THEN Len(s) + 1
        ELSE IF later = {} THEN 0
        ELSE 1 + count_from(s, sub, next + Len(sub))

\* s.split(','): the pieces between the commas, empty pieces included
split_commas(s) ==
    LET commas == occurrences_of(s, ",")
        \* the position of the k-th comma, 0 before the first piece and
        \* Len(s) + 1 behind the last
        at(k) == IF k = 0 THEN 0
                 ELSE IF k > Cardinality(commas) THEN Len(s) + 1
                 ELSE CHOOSE i \in commas : Cardinality({j \in commas : j < i}) = k - 1
    IN  [k \in 1..(Cardinality(commas) + 1) |-> SubSeq(s, at(k - 1) + 1, at(k) - 1)]

\* set(app_title.lower().split()) if app_title else set()
title_words_of(app_title) == ToSet(split(str_lower(app_title)))

\* lists[lo] \o ... \o lists[hi], by halves
RECURSIVE ConcatAll(_, _, _)
ConcatAll(lists, lo, hi) ==
    IF lo > hi THEN <<>>
    ELSE IF lo = hi THEN lists[lo]
    ELSE ConcatAll(lists, lo, (lo + hi) \div 2) \o ConcatAll(lists, (lo + hi) \div 2 + 1, hi)

\* the elements of s that stand at their first occurrence, in order: what a
\* loop leaves that appends an element unless the list already holds it
FirstOccurrences(s) ==
    LET firsts == SelectSeq([i \in 1..Len(s) |-> i],
                            LAMBDA i : \A j \in 1..(i - 1) : s[j] # s[i])
    IN  [k \in DOMAIN firsts |-> s[firsts[k]]]

\* the loop over target_keywords (lines 191-202): a keyword that is a title
\* word is skipped whole; of the others every word that is no title word is
\* appended to processed_keywords unless it is there already
processed_keywords_of(target_keywords, title_words) ==
    LET words_of(kw) ==
            LET keyword_lower == strip(str_lower(kw))
            IN  IF keyword_lower \in title_words THEN <<>>
                ELSE SelectSeq(split(keyword_lower), LAMBDA word : word \notin title_words)
    IN  FirstOccurrences(ConcatAll([k \in DOMAIN target_keywords |->
                                       words_of(target_keywords[k])],
                                   1, Len(target_keywords)))

\* word[:-1] for a word of more than one character that ends in 's'
singular_of(word) ==
    IF Len(word) > 1 /\ SubSeq(word, Len(word), Len(word)) = "s"
    THEN SubSeq(word, 1, Len(word) - 1)
    ELSE word

\* both branches append what they add to singular_set, unless it is there
_remove_plural_duplicates(keywords) ==
    FirstOccurrences([i \in DOMAIN keywords |-> singular_of(keywords[i])])

\* ','.join(keywords[lo - 1 : hi]), by halves
RECURSIVE JoinCommas(_, _, _)
JoinCommas(keywords, lo, hi) ==
    IF lo > hi THEN ""
    ELSE IF lo = hi THEN keywords[lo]
    ELSE JoinCommas(keywords, lo, (lo + hi) \div 2) \o ","
             \o JoinCommas(keywords, (lo + hi) \div 2 + 1, hi)

\* the loop appends keywords (none of them empty) with commas between them
\* and breaks at the first one with which the field would pass max_length:
\* the field is the longest run from the start all of whose prefixes fit
_build_keyword_field(keywords, max_length) ==
    LET Fits(m) == Len(JoinCommas(keywords, 1, m)) <= max_length
        taken == {m \in 0..Len(keywords) : \A k \in 1..m : Fits(k)}
    IN  JoinCommas(keywords, 1, CHOOSE m \in taken : \A k \in taken : k <= m)

_calculate_coverage(keywords, text) ==
    [k \in ToSet(keywords) |-> count_from(str_lower(text), str_lower(k), 1)]

optimization_tips ==
    <<"Keywords in title are auto-indexed - no need to repeat",
      "Use singular forms only (Apple indexes plurals automatically)",
      "No spaces between commas to maximize character usage",
      "Update keyword field with each app update to test variations">>

optimize_keyword_field(self, target_keywords, app_title, app_description) ==
    IF self.platform # "apple"
    THEN [error |-> "Keyword field optimization only applies to Apple App Store"]
    ELSE
        LET max_length == self.limits.keywords
            title_words == title_words_of(app_title)
            processed_keywords == processed_keywords_of(target_keywords, title_words)
            deduplicated == _remove_plural_duplicates(processed_keywords)
            keyword_field == _build_keyword_field(deduplicated, max_length)
        IN  [keyword_field |-> keyword_field,
             length |-> Len(keyword_field),
             remaining_chars |-> max_length - Len(keyword_field),
             keywords_included |-> split_commas(keyword_field),
             keywords_count |-> Len(split_commas(keyword_field)),
             keywords_excluded |->
                 SelectSeq(target_keywords, LAMBDA kw : ~contains(keyword_field, str_lower(kw))),
             description_coverage |-> _calculate_coverage(target_keywords, app_description),
             optimization_tips |-> optimization_tips]

-----------------------------------------------------------------------------
(* The metadata optimizer: custom product pages *)

MAX_CPP_COUNT == 70

ZeroDivisionError == [raised |-> "ZeroDivisionError"]

\* cluster.get(key, default)
dict_get(d, key, default) == IF key \in DOMAIN d THEN d[key] ELSE default

\* keyword_cluster_map[kw.lower()] = {...} for the keywords of one cluster
RECURSIVE MapKeywords(_, _, _)
MapKeywords(kws, info, keyword_cluster_map) ==
    IF kws = <<>> THEN keyword_cluster_map
    ELSE MapKeywords(Tail(kws), info,
                     [k \in DOMAIN keyword_cluster_map \cup {str_lower(Head(kws))} |->
                         IF k = str_lower(Head(kws)) THEN info ELSE keyword_cluster_map[k]])

RECURSIVE MapClusters(_, _)
MapClusters(keyword_clusters, keyword_cluster_map) ==
    IF keyword_clusters = <<>> THEN keyword_cluster_map
    ELSE LET cluster == Head(keyword_clusters)
             info == [cluster_name |-> dict_get(cluster, "name", "General"),
                      intent |-> dict_get(cluster, "intent", "general"),
                      combined_score |-> dict_get(cluster, "combined_score", 0)]
         IN  MapClusters(Tail(keyword_clusters),
                         MapKeywords(dict_get(cluster, "keywords", <<>>), info,
                                     keyword_cluster_map))

\* the mapping built at lines 763-772; None and the empty list build nothing
keyword_cluster_map_of(keyword_clusters) ==
    IF keyword_clusters.isNone THEN <<>> ELSE MapClusters(keyword_clusters.v, <<>>)

\* intent_groups.setdefault(intent, []).append(kw), the groups kept in the
\* order in which their intents first appeared
GroupAppend(intent_groups, intent, kw) ==
    IF \E g \in DOMAIN intent_groups : intent_groups[g].intent = intent
    THEN [g \in DOMAIN intent_groups |->
             IF intent_groups[g].intent = intent
             THEN [intent_groups[g] EXCEPT !.keywords = Append(@, kw)]
             ELSE intent_groups[g]]
    ELSE Append(intent_groups, [intent |-> intent, keywords |-> <<kw>>])

RECURSIVE GroupsFrom(_, _, _)
GroupsFrom(keywords, keyword_cluster_map, intent_groups) ==
    IF keywords = <<>> THEN intent_groups
    ELSE GroupsFrom(Tail(keywords), keyword_cluster_map,
                    IF str_lower(Head(keywords)) \in DOMAIN keyword_cluster_map
                    THEN GroupAppend(intent_groups,
                                     keyword_cluster_map[str_lower(Head(keywords))].intent,
                                     Head(keywords))
                    ELSE intent_groups)

\* the unclustered keywords whose position j has j % len(segments) == idx
\* (positions and idx counted from 0 as in the code)
RoundOf(unclustered, n, idx) ==
    LET Pick[j \in 0..Len(unclustered)] ==
            IF j = 0 THEN <<>>
            ELSE IF (j - 1) % n = idx THEN Append(Pick[j - 1], unclustered[j]) ELSE Pick[j - 1]
    IN  Pick[Len(unclustered)]

\* what the loop body of lines 868-876 appends for one idx (counted from 0)
AppendedAt(idx, n, intent_list, unclustered) ==
    (IF idx < Len(intent_list) THEN intent_list[idx + 1].keywords ELSE <<>>)
        \o RoundOf(unclustered, n, idx)

\* the appends of the positions in idxs, in that order
RECURSIVE AppendedFrom(_, _, _, _)
AppendedFrom(idxs, n, intent_list, unclustered) ==
    IF idxs = <<>> THEN <<>>
    ELSE AppendedAt(Head(idxs), n, intent_list, unclustered)
             \o AppendedFrom(Tail(idxs), n, intent_list, unclustered)

\* the positions (from 0) among count at which place gives the segment
PositionsOf(segment, count, place(_)) ==
    SelectSeq([i \in 1..count |-> i - 1], LAMBDA i : place(i) = segment)

\* for idx, segment in enumerate(segments): a segment's list receives the
\* appends of the positions at which its name stands, in ascending order
ByIntent(segments, intent_list, unclustered, segment_keywords) ==
    [segment \in DOMAIN segment_keywords |->
        segment_keywords[segment]
            \o AppendedFrom(PositionsOf(segment, Len(segments), LAMBDA idx : segments[idx + 1]),
                            Len(segments), intent_list, unclustered)]

\* for i, kw in enumerate(keywords): a segment's list receives, in ascending
\* order, the keywords at the positions i with segments[i % len(segments)]
\* its name
RoundRobin(segments, keywords, segment_keywords) ==
    [segment \in DOMAIN segment_keywords |->
        LET mine == PositionsOf(segment, Len(keywords),
                                LAMBDA i : segments[(i % Len(segments)) + 1])
        IN  segment_keywords[segment] \o [k \in DOMAIN mine |-> keywords[mine[k] + 1]]]

\* a dict of the segment names; the caller has excluded the division by zero
_distribute_keywords_to_segments(segments, keywords, keyword_cluster_map) ==
    LET segment_keywords == [seg \in ToSet(segments) |-> <<>>]
    IN  IF keyword_cluster_map # <<>>
        THEN ByIntent(segments,
                      GroupsFrom(keywords, keyword_cluster_map, <<>>),
                      SelectSeq(keywords,
                                LAMBDA kw : str_lower(kw) \notin DOMAIN keyword_cluster_map),
                      segment_keywords)
        ELSE RoundRobin(segments, keywords, segment_keywords)

\* max(intent_counts, key=intent_counts.get): the first intent, in the order
\* of first appearance among the assigned keywords, with the greatest count
dominant_intent_of(assigned_keywords, keyword_cluster_map) ==
    LET intent_counts == GroupsFrom(assigned_keywords, keyword_cluster_map, <<>>)
        best == CHOOSE g \in DOMAIN intent_counts :
                    /\ \A h \in DOMAIN intent_counts :
                           Len(intent_counts[h].keywords) <= Len(intent_counts[g].keywords)
                    /\ \A h \in 1..(g - 1) :
                           Len(intent_counts[h].keywords) < Len(intent_counts[g].keywords)
    IN  IF intent_counts = <<>> THEN "general" ELSE intent_counts[best].intent

\* the assignment fields of one page; its title, subtitle and screenshot
\* texts are fixed by the same arguments and are left out
_build_cpp_for_segment(self, segment, assigned_keywords, cpp_type, keyword_cluster_map) ==
    [segment |-> segment,
     cpp_type |-> cpp_type,
     title_limit |-> self.limits.title,
     subtitle_limit |-> self.limits.subtitle,
     keyword_assignment |-> SubSeq(assigned_keywords, 1, Min(Len(assigned_keywords), 10)),
     keyword_count |-> Min(Len(assigned_keywords), 10),
     dominant_intent |-> dominant_intent_of(assigned_keywords, keyword_cluster_map)]

generate_cpp_metadata(self, segments, keywords, keyword_clusters) ==
    LET total_cpps == Len(segments) + Len(segments)
        keyword_cluster_map == keyword_cluster_map_of(keyword_clusters)
        segment_keywords ==
            _distribute_keywords_to_segments(segments, keywords, keyword_cluster_map)
    IN  IF self.platform # "apple"
        THEN [error |-> "Custom Product Pages are only available on Apple App Store",
              suggestion |->
                  "Use Google Play Store Listing Experiments for A/B testing on Google"]
        ELSE IF total_cpps > MAX_CPP_COUNT THEN ValueError
        ELSE IF keyword_cluster_map = <<>> /\ keywords # <<>> /\ segments = <<>>
        THEN ZeroDivisionError
        ELSE [platform |-> "apple",
              total_cpps |-> total_cpps,
              max_allowed |-> MAX_CPP_COUNT,
              remaining_slots |-> MAX_CPP_COUNT - total_cpps,
              organic_cpps |->
                  [i \in DOMAIN segments |->
                      _build_cpp_for_segment(self, segments[i], segment_keywords[segments[i]],
                                             "organic", keyword_cluster_map)],
              paid_cpps |->
                  [i \in DOMAIN segments |->
                      _build_cpp_for_segment(self, segments[i], segment_keywords[segments[i]],
                                             "paid", keyword_cluster_map)],
              segment_keyword_distribution |-> segment_keywords]

-----------------------------------------------------------------------------
(* Specification of the optimizer beside a scorer: the caller constructs a
   scorer for some platform, constructs optimizers (a failed construction
   leaves the optimizer held before) and calls the optimizer held. *)

\* the arguments the constructor is called with, None among them
OptimizerPlatforms ==
    <<None, Some("apple"), Some("google"), Some("Apple"), Some("ios"), Some("")>>

TargetKeywordLists ==
    {<<>>,
     <<"habits">>,
     <<"habit tracker", "daily habits", "Goals  planner ">>,
     <<"meditation timer", "sleep sounds", "breathing exercise", "mindfulness coach",
       "relaxation music", "anxiety relief", "guided journaling", "focus sessions">>}

AppTitles == {"", "Habit Tracker", "Streaks"}

AppDescriptions == {"", "daily habit tracker"}

\* MetadataOptimizer(platform)
ConstructOptimizer ==
    \E i \in DOMAIN OptimizerPlatforms :
        LET p == OptimizerPlatforms[i] IN
        /\ fn' = "MetadataOptimizer"
        /\ args' = [platform |-> p]
        /\ IF platform_accepted(p)
           THEN ret' = None /\ optimizer' = Some(new_optimizer(p))
           ELSE ret' = ValueError /\ optimizer' = optimizer
        /\ UNCHANGED <<scorer_vars, analyzed_keywords, hash_order, earlier, threads>>

OptimizeKeywordField ==
    \E target_keywords \in TargetKeywordLists, app_title \in AppTitles :
        \E app_description \in AppDescriptions :
            /\ ~optimizer.isNone
            /\ fn' = "optimize_keyword_field"
            /\ args' = [target_keywords |-> target_keywords, app_title |-> app_title,
                        app_description |-> app_description]
            /\ ret' = optimize_keyword_field(optimizer.v, target_keywords, app_title,
                                             app_description)
            /\ UNCHANGED <<scorer_vars, analyzed_keywords, env_vars>>

SegmentNames ==
    <<"s01", "s02", "s03", "s04", "s05", "s06", "s07", "s08", "s09", "s10", "s11", "s12",
      "s13", "s14", "s15", "s16", "s17", "s18", "s19", "s20", "s21", "s22", "s23", "s24",
      "s25", "s26", "s27", "s28", "s29", "s30", "s31", "s32", "s33", "s34", "s35", "s36">>

SegmentLists ==
    {<<>>, <<"beginners">>, <<"beginners", "power users">>,
     <<"beginners", "power users", "enterprise">>, <<"beginners", "beginners">>,
     SubSeq(SegmentNames, 1, MAX_CPP_COUNT \div 2),
     SubSeq(SegmentNames, 1, MAX_CPP_COUNT \div 2 + 1)}

CppKeywordLists ==
    {<<>>, ScoredList, <<"Track Expenses", "sudoku", "manage team", "budget planner">>}

\* clusters as cluster_by_intent returns them, and one without its intent key
CppClusters ==
    <<None,
      Some(<<>>),
      Some(<<[name |-> "Track", intent |-> "track",
              keywords |-> <<Kw_track, "track expenses daily">>, keyword_count |-> 2,
              natural_queries |-> <<>>, combined_score |-> 20],
             [name |-> "Manage", intent |-> "manage", keywords |-> <<"manage team">>,
              keyword_count |-> 1, natural_queries |-> <<>>, combined_score |-> 10]>>),
      Some(<<[name |-> "Track", intent |-> "track", keywords |-> <<Kw_track>>,
              keyword_count |-> 1, natural_queries |-> <<>>, combined_score |-> 10],
             [name |-> "Manage", keywords |-> <<"manage team">>]>>)>>

GenerateCppMetadata ==
    \E segments \in SegmentLists, keywords \in CppKeywordLists, c \in DOMAIN CppClusters :
        /\ ~optimizer.isNone
        /\ fn' = "generate_cpp_metadata"
        /\ args' = [segments |-> segments, keywords |-> keywords,
                    keyword_clusters |-> CppClusters[c]]
        /\ ret' = generate_cpp_metadata(optimizer.v, segments, keywords, CppClusters[c])
        /\ UNCHANGED <<scorer_vars, analyzed_keywords, env_vars>>

InitOptimizer == \E p \in Platforms : Construct(p) /\ ConstructAnalyzer /\ Run(<<>>)

NextOptimizer ==
    \/ ConstructOptimizer
    \/ OptimizeKeywordField
    \/ GenerateCppMetadata

SpecOptimizer == InitOptimizer /\ [][NextOptimizer]_vars

-----------------------------------------------------------------------------
(* Properties of the optimizer (specification SpecOptimizer) *)

Constructing == fn = "MetadataOptimizer"

StorePlatform(p) == p = Some("apple") \/ p = Some("google")

\* a construction that raised leaves the caller the optimizer held before
C21_FailedBuildsNothing ==
    (fn' = "MetadataOptimizer" /\ ret' = ValueError) => optimizer' = optimizer

\* C21: MetadataOptimizer(platform) raises ValueError exactly when platform is
\* not 'apple' or 'google' (as written, None included) and then no optimizer
\* is created; with 'apple' or 'google' it returns an optimizer of that
\* platform with that platform's limits.  The scorer's constructor returns a
\* scorer for every platform value, and a platform it does not know gets the
\* default weights.
C21_OptimizerRejectsScorerFallsBack ==
    /\ [](Constructing =>
            /\ ret \in {None, ValueError}
            /\ (ret = ValueError) <=> ~StorePlatform(args.platform)
            /\ ret = None =>
                 /\ optimizer = Some([platform |-> args.platform.v,
                                      limits |-> CHAR_LIMITS[args.platform.v]])
                 /\ optimizer.v.limits.title = IF args.platform.v = "apple" THEN 30 ELSE 50)
    /\ [](/\ fn = "__init__" => ret = None
          /\ platform = init_platform(ctor_platform)
          /\ platform \notin {Some(Str_apple), Some(Str_google)}
               => _active_weights = class_attrs.WEIGHTS)
    /\ [][C21_FailedBuildsNothing]_vars

\* a rejected platform after a successful construction, beside a scorer that
\* was given a platform it does not know
C21_Witness ==
    /\ Constructing /\ args.platform = Some("Apple") /\ ret = ValueError
    /\ optimizer = Some([platform |-> "google", limits |-> CHAR_LIMITS.google])
    /\ ctor_platform = Some(<<"i", "o", "s">>) /\ _active_weights = class_attrs.WEIGHTS

\* the keyword field an Apple optimizer returned
FieldOfApple == fn = "optimize_keyword_field" /\ optimizer.v.platform = "apple"

Entries == ret.keywords_included

FieldWithinLimit == Len(ret.keyword_field) <= 100

EntriesDistinct ==
    \A i, j \in DOMAIN Entries : Entries[i] = Entries[j] => i = j

EntriesWithoutSpaces == ~contains(ret.keyword_field, " ")

EntriesOutsideTitle ==
    \A i \in DOMAIN Entries : Entries[i] \notin ToSet(split(str_lower(args.app_title)))

\* C27: the keyword field of an Apple optimizer has at most 100 characters,
\* and its comma-separated entries are pairwise distinct, hold no blank and
\* are none of the words of the lower-cased app_title.
C27_KeywordFieldClean ==
    FieldOfApple =>
        /\ Entries = split_commas(ret.keyword_field)
        /\ FieldWithinLimit
        /\ EntriesDistinct
        /\ EntriesWithoutSpaces
        /\ EntriesOutsideTitle

\* a call of an Apple optimizer with a segment list the claim is about
CppCall ==
    /\ fn = "generate_cpp_metadata" /\ optimizer.v.platform = "apple"
    /\ Len(args.segments) >= 1 /\ Len(args.segments) <= 35

\* the segments whose list holds the keyword
SegmentsHolding(kw) ==
    {seg \in DOMAIN ret.segment_keyword_distribution :
        \E i \in DOMAIN ret.segment_keyword_distribution[seg] :
            ret.segment_keyword_distribution[seg][i] = kw}

\* the input list holds no keyword twice
AssignedOnce(seg, kw) ==
    Cardinality({i \in DOMAIN ret.segment_keyword_distribution[seg] :
                    ret.segment_keyword_distribution[seg][i] = kw}) = 1

\* C28: for one to 35 segments generate_cpp_metadata returns a distribution
\* over the segment names in which every keyword of the input list stands in
\* the list of exactly one segment, once, with keyword_clusters and without.
C28_EveryKeywordInOneSegment ==
    CppCall =>
        /\ "segment_keyword_distribution" \in DOMAIN ret
        /\ DOMAIN ret.segment_keyword_distribution = ToSet(args.segments)
        /\ \A k \in DOMAIN args.keywords :
               /\ Cardinality(SegmentsHolding(args.keywords[k])) = 1
               /\ \A seg \in SegmentsHolding(args.keywords[k]) :
                      AssignedOnce(seg, args.keywords[k])

-----------------------------------------------------------------------------
(* Properties of the report (specification Spec) *)

IsReport == fn = "calculate_overall_score"

DimensionSet == {Dimensions[i] : i \in 1..Len(Dimensions)}

SubScore(c) == ret.score_breakdown[c].score

SumOfWeights(w) == SumSeq([i \in 1..Len(Dimensions) |-> w[Dimensions[i]]])

\* the profile the platform identifier p selects: by its lower-cased text
ProfileOf(p) ==
    IF ~p.isNone /\ Lower(p.v) = Str_google THEN GOOGLE_WEIGHTS
    ELSE IF ~p.isNone /\ Lower(p.v) = Str_apple THEN APPLE_WEIGHTS
    ELSE WEIGHTS

\* the one-decimal rounding of the sum of sub-score x weight / 100 under profile w
WeightedSumUnder(w) ==
    Round1(SumSeq([i \in 1..Len(Dimensions) |->
                      (SubScore(Dimensions[i]) * w[Dimensions[i]]) \div 100]))

\* C1: overall_score is the one-decimal rounding of the sum of sub-score x
\* weight / 100 over the six dimensions, with the Google profile when the
\* platform identifier lower-cased is 'google', the Apple profile when it is
\* 'apple' and the default profile otherwise (None, '', unrecognized text);
\* weights_used is that same profile.
C1_OverallIsWeightedSum ==
    IsReport =>
        /\ ret.overall_score = WeightedSumUnder(ProfileOf(ctor_platform))
        /\ ret.weights_used = ProfileOf(ctor_platform)

\* a report of a scorer built with a mixed-case identifier, whose overall score
\* differs from what the default profile would give
C1_Witness ==
    /\ IsReport
    /\ ctor_platform = Some(<<"G", "o", "o", "g", "l", "e">>)
    /\ ret.weights_used = GOOGLE_WEIGHTS
    /\ ret.overall_score # WeightedSumUnder(WEIGHTS)

\* C2: the reported overall_score lies between the smallest and the largest of
\* the six sub-scores of the same report.
C2_OverallBetweenMinAndMax ==
    IsReport =>
        /\ \E c \in DimensionSet : SubScore(c) <= ret.overall_score
        /\ \E c \in DimensionSet : ret.overall_score <= SubScore(c)

\* a report whose overall score equals its largest sub-score while another
\* sub-score is smaller only by the rounding of the weighted sum
C2_Witness ==
    /\ IsReport
    /\ \A c \in DimensionSet : SubScore(c) <= ret.overall_score
    /\ \E c \in DimensionSet : SubScore(c) < ret.overall_score

\* C3: each of the three profiles has exactly the six dimension keys and integer
\* weights that sum to 100; the weights the scorer uses sum to 100 after any
\* sequence of calls, and the class-level tables are the ones the class defines.
C3_WeightsSumTo100 ==
    /\ \A name \in {"WEIGHTS", "GOOGLE_WEIGHTS", "APPLE_WEIGHTS"} :
          /\ DOMAIN class_attrs[name] = DimensionSet
          /\ \A c \in DimensionSet : class_attrs[name][c] \in Nat
          /\ SumOfWeights(class_attrs[name]) = 100
    /\ Cardinality(DimensionSet) = 6
    /\ DOMAIN _active_weights = DimensionSet
    /\ SumOfWeights(_active_weights) = 100
    /\ class_attrs = ClassAttrs

\* a scorer for Google that has produced a report
C3_Witness ==
    /\ IsReport
    /\ platform = Some(Str_google)
    /\ _active_weights # class_attrs.WEIGHTS
    /\ ret.score_breakdown = score_breakdown

\* the health label of a score under the top-down ladder
HealthLabelOf(score) ==
    IF score >= Pts(80) THEN "Excellent - Top-tier ASO performance"
    ELSE IF score >= Pts(65) THEN "Good - Competitive ASO with room for improvement"
    ELSE IF score >= Pts(50) THEN "Fair - Needs strategic improvements"
    ELSE "Poor - Requires immediate ASO overhaul"

\* C4: in every report, health_status is the label the reported overall_score
\* maps to: Excellent from 80, Good from 65, Fair from 50, Poor below, also
\* when the reported overall_score is exactly 80.0, 65.0 or 50.0.
C4_HealthMatchesReportedScore ==
    IsReport => ret.health_status = HealthLabelOf(ret.overall_score)

\* C8: a technical_data of None gives the technical sub-score 50.0 and a
\* visual_data of None gives the visual sub-score 50.0; a bundle that is given,
\* the empty one included, is scored by the dimension scorer.
C8_NeutralOnlyWhenNone ==
    IsReport =>
        /\ args.technical_data.isNone => SubScore("technical_performance") = Pts(50)
        /\ ~args.technical_data.isNone =>
              SubScore("technical_performance") = score_technical_performance(args.technical_data.v)
        /\ args.technical_data = Some(<<>>) => SubScore("technical_performance") = Pts(100)
        /\ ret.score_breakdown["technical_performance"].data_provided = ~args.technical_data.isNone
        /\ args.visual_data.isNone => SubScore("visual_optimization") = Pts(50)
        /\ ~args.visual_data.isNone =>
              SubScore("visual_optimization") = score_visual_optimization(args.visual_data.v)
        /\ args.visual_data = Some(<<>>) => SubScore("visual_optimization") = 0
        /\ ret.score_breakdown["visual_optimization"].data_provided = ~args.visual_data.isNone

\* a report for an empty technical bundle and no visual bundle
C8_Witness ==
    /\ IsReport
    /\ args.technical_data = Some(<<>>)
    /\ args.visual_data.isNone
    /\ SubScore("technical_performance") = Pts(100)
    /\ SubScore("visual_optimization") = Pts(50)

\* the priority the ladder of dimension c gives a score; "none" at or above the top rung
LadderPriority(c, score) ==
    IF c = "technical_performance"
    THEN IF score < Pts(40) THEN "high"
         ELSE IF score < Pts(70) THEN "medium"
         ELSE IF score < Pts(90) THEN "low"
         ELSE "none"
    ELSE IF c = "visual_optimization"
    THEN IF score < Pts(40) THEN "high"
         ELSE IF score < Pts(80) THEN "medium"
         ELSE "none"
    ELSE IF score < Pts(60) THEN "high"
         ELSE IF score < Pts(80) THEN "medium"
         ELSE "none"

\* the dimensions that get a recommendation, in dimension order
Recommended == SelectSeq(Dimensions, LAMBDA c : LadderPriority(c, SubScore(c)) # "none")

\* C9: the recommendation list holds at most one entry per dimension, in the
\* order metadata, ratings, keywords, conversion, technical, visual, each with
\* the priority of the dimension's ladder; a dimension at or above its top rung
\* gets none, so the list has at most six entries and may be empty.
C9_OneRecommendationPerLadder ==
    IsReport =>
        /\ Len(ret.recommendations) = Len(Recommended)
        /\ Len(ret.recommendations) <= 6
        /\ \A i \in 1..Len(ret.recommendations) :
              /\ ret.recommendations[i].category = Recommended[i]
              /\ ret.recommendations[i].priority
                    = LadderPriority(Recommended[i], SubScore(Recommended[i]))
              /\ ret.recommendations[i].priority \in {"high", "medium", "low"}
        /\ (\A c \in DimensionSet : LadderPriority(c, SubScore(c)) = "none")
              => ret.recommendations = <<>>

\* a report with a low-priority technical recommendation and a dimension that gets none
C9_Witness ==
    /\ IsReport
    /\ \E i \in 1..Len(ret.recommendations) :
          /\ ret.recommendations[i].category = "technical_performance"
          /\ ret.recommendations[i].priority = "low"
    /\ SubScore("metadata_quality") = Pts(80)
    /\ Len(ret.recommendations) < 6
    /\ ret.recommendations[1].category # "metadata_quality"

PriorityRank(r) == IF r.priority = "high" THEN 0 ELSE IF r.priority = "medium" THEN 1 ELSE 2

WithPriority(recs, p) == SelectSeq(recs, LAMBDA r : r.priority = p)

\* position of dimension c in the dimension order
DimensionIndex(c) == CHOOSE i \in 1..Len(Dimensions) : Dimensions[i] = c

Listed(entries) == [i \in 1..Len(entries) |-> entries[i].category]

InDimensionOrder(cats) ==
    \A i, j \in 1..Len(cats) : i < j => DimensionIndex(cats[i]) < DimensionIndex(cats[j])

\* entries names exactly the dimensions of the set dims, once each, in dimension
\* order, each with the sub-score of its dimension and the given suffix
ListsExactly(entries, dims, suffix) ==
    /\ Len(entries) = Cardinality(dims)
    /\ {entries[i].category : i \in 1..Len(entries)} = dims
    /\ InDimensionOrder(Listed(entries))
    /\ \A i \in 1..Len(entries) :
          /\ entries[i].score = SubScore(entries[i].category)
          /\ entries[i].text = suffix

\* C11: in every report, strengths lists exactly the dimensions whose sub-score
\* is >= 75 and weaknesses exactly the dimensions whose sub-score is < 60,
\* each in dimension order; when no dimension qualifies the list is the single
\* filler string, never empty.
C11_StrengthsAndWeaknesses ==
    IsReport =>
        LET strong == {c \in DimensionSet : SubScore(c) >= Pts(75)}
            weak == {c \in DimensionSet : SubScore(c) < Pts(60)}
        IN  /\ IF strong = {}
               THEN ret.strengths = <<Entry("", 0, "Focus on building strengths across all areas")>>
               ELSE ListsExactly(ret.strengths, strong, "/100")
            /\ IF weak = {}
               THEN ret.weaknesses = <<Entry("", 0, "All areas performing adequately")>>
               ELSE ListsExactly(ret.weaknesses, weak, "/100 - needs improvement")

\* a report with a sub-score of exactly 75 listed among several strengths and
\* no weakness at all
C11_Witness ==
    /\ IsReport
    /\ \E c \in DimensionSet : SubScore(c) = Pts(75)
    /\ Len(ret.strengths) >= 2
    /\ \A c \in DimensionSet : SubScore(c) >= Pts(60)
    /\ ret.weaknesses = <<Entry("", 0, "All areas performing adequately")>>

\* the dimensions with a recommendation of priority 'high' in the report
HighPriority ==
    {ret.recommendations[i].category :
        i \in {j \in 1..Len(ret.recommendations) : ret.recommendations[j].priority = "high"}}

\* the dimensions the report lists in weaknesses
Weak == {ret.weaknesses[i].category : i \in 1..Len(ret.weaknesses)} \cap DimensionSet

\* the dimensions whose 'high' threshold is 60
HighBelow60 ==
    {"metadata_quality", "ratings_reviews", "keyword_performance", "conversion_metrics"}

\* C30: in every report, a dimension with a recommendation of priority 'high'
\* has a sub-score below 60 and is listed in weaknesses; metadata, ratings,
\* keywords and conversion are listed in weaknesses exactly when their
\* recommendation has priority 'high'.
C30_HighPriorityIsWeakness ==
    IsReport =>
        /\ \A c \in HighPriority : SubScore(c) < Pts(60) /\ c \in Weak
        /\ \A c \in HighBelow60 : c \in Weak <=> c \in HighPriority

\* a report in which the technical dimension is a weakness without a 'high'
\* recommendation, the visual dimension has one, and of metadata, ratings,
\* keywords and conversion some have a 'high' recommendation and some are no
\* weakness
C30_Witness ==
    /\ IsReport
    /\ "technical_performance" \in Weak \ HighPriority
    /\ "visual_optimization" \in HighPriority
    /\ HighBelow60 \cap HighPriority # {}
    /\ HighBelow60 \ Weak # {}

-----------------------------------------------------------------------------
(* Properties of the dimension scorers (specification SpecScorers) *)

IsScore == fn \in ScorerNames

\* C5: for every metric bundle, with any keys missing and values of any sign,
\* each of the six dimension scorers returns a value v with 0 <= v <= 100.
C5_ScoreBetween0And100 ==
    IsScore => 0 <= ret /\ ret <= Pts(100)

GoodMetrics ==
    {"title_keyword_count", "title_length", "description_length", "description_quality",
     "average_rating", "total_ratings", "recent_ratings_30d",
     "top_10", "top_50", "top_100", "improving_keywords",
     "impression_to_install", "downloads_last_30_days",
     "cpp_count", "has_captions", "has_video"}

BadMetrics == {"crash_rate", "anr_rate", "battery_impact"}

\* value y of metric key is larger than value x (a flag: it switches to true)
Larger(key, x, y) == IF key \in {"has_captions", "has_video"} THEN ~x /\ y ELSE x < y

\* bundle y is bundle x with metric key raised and every other metric as in x
RaisedAt(x, y, key) ==
    /\ DOMAIN x = DOMAIN y
    /\ key \in DOMAIN x
    /\ \A k \in DOMAIN x \ {key} : x[k] = y[k]
    /\ Larger(key, x[key], y[key])

\* C6: with the other metrics held fixed, a scorer's result never decreases when
\* a good metric increases and never increases when a bad metric (crash_rate,
\* anr_rate, battery_impact) increases.
C6_Monotone ==
    [][(IsScore /\ fn' = fn) =>
          /\ \A key \in GoodMetrics : RaisedAt(args, args', key) => ret <= ret'
          /\ \A key \in BadMetrics : RaisedAt(args, args', key) => ret' <= ret]_vars

\* a technical score that a lower crash_rate would strictly raise
C6_Witness ==
    /\ fn = "score_technical_performance"
    /\ "crash_rate" \in DOMAIN args
    /\ \E v \in Values("crash_rate") :
          /\ v < args["crash_rate"]
          /\ score_technical_performance(Put(args, "crash_rate", v)) > ret

\* the three budgets as the claim states them, for rates in hundredths
C7_Crash(c) ==
    IF c <= 100 THEN 40 * DEN
    ELSE IF c <= 200 THEN 40 * DEN - 20 * (c - 100) * (DEN \div 100)
    ELSE Max(20 * DEN - 10 * (c - 200) * (DEN \div 100), 0)

C7_Anr(a) ==
    IF a <= 50 THEN 35 * DEN
    ELSE IF a <= 100 THEN 35 * DEN - 35 * (a - 50) * (DEN \div 100)
    ELSE Max(35 * (DEN \div 2) - 35 * (a - 100) * (DEN \div 400), 0)

C7_Battery(b) ==
    IF b <= 500 THEN 25 * DEN
    ELSE IF b <= 1000 THEN 25 * DEN - (b - 500) * (DEN \div 40)
    ELSE Max(25 * (DEN \div 2) - (b - 1000) * (DEN \div 40), 0)

\* C7: score_technical_performance is the sum, rounded to one decimal, of the
\* crash, ANR and battery budgets of the claim; (0.5, 0.3, 3) gives 100.0 and
\* (3.0, 2.0, 15) gives 18.8.
C7_TechnicalFormula ==
    fn = "score_technical_performance" =>
        /\ ret = Round1(C7_Crash(Get(args, "crash_rate", 0))
                        + C7_Anr(Get(args, "anr_rate", 0))
                        + C7_Battery(Get(args, "battery_impact", 0)))
        /\ args = Technical(50, 30, 300) => ret = 1000 * Tenth
        /\ args = Technical(300, 200, 1500) => ret = 188 * Tenth

\* the call score_technical_performance(3.0, 2.0, 15), whose sum 18.75 is rounded
C7_Witness ==
    /\ fn = "score_technical_performance"
    /\ args = Technical(300, 200, 1500)
    /\ ret = 188 * Tenth

-----------------------------------------------------------------------------
(* Properties of the keyword scores (specification SpecAnalyze) *)

IsAnalysis == fn = "analyze_keyword"

\* y is a one-decimal rounding of the exact value x
IsRounding(y, x) == y % Tenth = 0 /\ 2 * y >= 2 * x - Tenth /\ 2 * y <= 2 * x + Tenth

\* min(min(volume / 100000 * 40, 40) + C + relevance * 30, 100), where C is 30
\* for no competing app and max(30 - competing_apps / 500, 0) otherwise
PotentialOf(volume, competing, relevance) ==
    LET C == IF competing = 0 THEN Pts(30)
             ELSE Max(Pts(30) - Div(competing, 500), 0)
    IN  Min(Min(Div(volume, 100000) * 40, Pts(40)) + C + Thousandths(relevance) * 30, Pts(100))

\* C12: potential_score is min(min(volume/100000*40, 40) + C + relevance*30,
\* 100) rounded to one decimal, with C = 30 for competing_apps = 0 and
\* max(30 - competing_apps/500, 0) otherwise; it lies in [0, 100] for every
\* non-negative input; for volume 50000, 2000 competing apps and relevance
\* 0.9 it is 73.
C12_PotentialScore ==
    IsAnalysis =>
        /\ IsRounding(ret.potential_score,
                      PotentialOf(args.search_volume, args.competing_apps, args.relevance_score))
        /\ ret.potential_score >= 0
        /\ ret.potential_score <= Pts(100)
        /\ args.search_volume = 50000 /\ args.competing_apps = 2000 /\ args.relevance_score = 900
              => ret.potential_score = Pts(73)

\* the call analyze_keyword(k, 50000, 2000, 0.9), whose potential is 73
C12_Witness ==
    /\ IsAnalysis
    /\ args.search_volume = 50000 /\ args.competing_apps = 2000 /\ args.relevance_score = 900
    /\ ret.potential_score = Pts(73)

\* C13: difficulty_score is 100 * (0.7 * min(competing_apps/50000, 1) + 0.3 *
\* min(search_volume/1000000, 1)) rounded to one decimal when competing_apps >
\* 0, and exactly 0 when competing_apps = 0 whatever the search volume; it
\* lies in [0, 100].
C13_DifficultyScore ==
    IsAnalysis =>
        LET cf == Min(Div(args.competing_apps, 50000), Pts(1))
            vf == Min(Div(args.search_volume, 1000000), Pts(1))
        IN  /\ args.competing_apps > 0 => IsRounding(ret.difficulty_score, cf * 70 + vf * 30)
            /\ args.competing_apps = 0 => ret.difficulty_score = 0
            /\ ret.difficulty_score >= 0
            /\ ret.difficulty_score <= Pts(100)

\* a keyword without competing apps and with a large search volume: difficulty 0
C13_Witness ==
    /\ IsAnalysis
    /\ args.competing_apps = 0
    /\ args.search_volume >= 1000000
    /\ ret.difficulty_score = 0

\* C14: the recommendation is decided first by the relevance gate (relevance <
\* 0.5, for example 0.3, gives 'Low relevance - avoid targeting' for every
\* potential and difficulty), then by the ladder on potential_score: >= 70
\* high priority, 50..70 split at difficulty 50, 30..50 secondary, below 30
\* deprioritize.
C14_Recommendation ==
    IsAnalysis =>
        LET potential == ret.potential_score
            difficulty == ret.difficulty_score
        IN  /\ args.relevance_score < 500
                  => ret.recommendation = "Low relevance - avoid targeting"
            /\ args.relevance_score = 300
                  => ret.recommendation = "Low relevance - avoid targeting"
            /\ args.relevance_score >= 500 =>
                  /\ potential >= Pts(70)
                        => ret.recommendation = "High priority - target immediately"
                  /\ potential >= Pts(50) /\ potential < Pts(70) /\ difficulty < Pts(50)
                        => ret.recommendation = "Good opportunity - include in metadata"
                  /\ potential >= Pts(50) /\ potential < Pts(70) /\ difficulty >= Pts(50)
                        => ret.recommendation = "Competitive - use in description, not title"
                  /\ potential >= Pts(30) /\ potential < Pts(50)
                        => ret.recommendation = "Secondary keyword - use for long-tail variations"
                  /\ potential < Pts(30)
                        => ret.recommendation = "Low potential - deprioritize"

\* a keyword of relevance 0.3 whose potential is 70 or more: the gate decides
C14_Witness ==
    /\ IsAnalysis
    /\ args.relevance_score = 300
    /\ ret.potential_score >= Pts(70)
    /\ ret.recommendation = "Low relevance - avoid targeting"

-----------------------------------------------------------------------------
(* Properties of the keyword cache and the comparison (specification
   SpecKeywords) *)

IsComparison == fn = "compare_keywords" /\ ret # KeyError

\* the elements the call just made has analyzed, in order: the arguments of an
\* analyze_keyword call, or the elements of the list given to compare_keywords
\* up to the first one without a keyword
AnalyzedBy(f, a) ==
    IF f = "analyze_keyword" THEN <<a>>
    ELSE IF f = "compare_keywords" THEN Analyzable(a)
    ELSE <<>>

\* the last element of the list es that names keyword k
LastFor(es, k) ==
    es[CHOOSE i \in 1..Len(es) :
          es[i].keyword = k /\ \A j \in (i + 1)..Len(es) : es[j].keyword # k]

\* record r is an analysis of element e
AnalysisFor(r, e) ==
    /\ r.keyword = e.keyword
    /\ r.search_volume = Get(e, "search_volume", 0)
    /\ r.competing_apps = Get(e, "competing_apps", 0)
    /\ r.relevance_score = Get(e, "relevance_score", 0)

C15_Step ==
    LET es == AnalyzedBy(fn', args')
        keys == {es[i].keyword : i \in 1..Len(es)}
    IN  /\ DOMAIN analyzed_keywords' = DOMAIN analyzed_keywords \cup keys
        /\ \A k \in DOMAIN analyzed_keywords \ keys :
              analyzed_keywords'[k] = analyzed_keywords[k]
        /\ \A k \in keys :
              /\ AnalysisFor(analyzed_keywords'[k], LastFor(es, k))
              /\ fn' = "analyze_keyword" => analyzed_keywords'[k] = ret'
              /\ fn' = "compare_keywords" /\ ret' # KeyError =>
                    \E i \in 1..Len(ret'.ranked_keywords) :
                        ret'.ranked_keywords[i] = analyzed_keywords'[k]

\* C15: the cache starts empty, and every analyze_keyword or compare_keywords
\* call adds exactly the keyword strings it analyzes (as given: case-sensitive,
\* not normalized), maps each of them to the record of its most recent
\* analysis, and leaves the entry of every other key unchanged; hence after
\* any sequence of calls the keys are the distinct strings analyzed so far.
C15_CacheTracksAnalyses ==
    /\ analyzed_keywords = EmptyBundle
    /\ [][C15_Step]_vars

\* a comparison that analyzed 'habit tracker' twice with different numbers: the
\* cache holds the later analysis, and the entry of 'Habit Tracker', which the
\* comparison did not name, is still there beside it
C15_Witness ==
    /\ IsComparison
    /\ Len(args) = 2
    /\ args[1] = KwData(Kw_habit, 100000, 0, 900)
    /\ args[2] = [keyword |-> Kw_habit]
    /\ analyzed_keywords[Kw_habit].search_volume = 0
    /\ Kw_Habit \in DOMAIN analyzed_keywords
    /\ analyzed_keywords[Kw_Habit].keyword = Kw_Habit
    /\ analyzed_keywords[Kw_Habit] # analyzed_keywords[Kw_habit]

\* the number of places of the list s that hold x
Count(s, x) == Cardinality({i \in 1..Len(s) : s[i] = x})

\* C16: ranked_keywords is a permutation of the analyses of the input list (one
\* entry per input element, duplicates kept, total_keywords_analyzed equal to
\* the input length), in non-increasing order of potential_score, entries of
\* equal potential_score in their input order.
C16_RankedIsStableSort ==
    IsComparison =>
        LET analyses == [i \in 1..Len(args) |-> analysis_of(args[i])]
            ranked == ret.ranked_keywords
        IN  /\ Len(ranked) = Len(args)
            /\ ret.total_keywords_analyzed = Len(args)
            /\ \A i \in 1..Len(ranked) : Count(ranked, ranked[i]) = Count(analyses, ranked[i])
            /\ \A i \in 1..Len(analyses) : Count(ranked, analyses[i]) = Count(analyses, analyses[i])
            /\ \A i \in 1..(Len(ranked) - 1) :
                  ranked[i].potential_score >= ranked[i + 1].potential_score
            /\ \A i \in 1..Len(analyses) :
                  LET p == analyses[i].potential_score
                  IN  SelectSeq(ranked, LAMBDA x : x.potential_score = p)
                        = SelectSeq(analyses, LAMBDA x : x.potential_score = p)

\* a comparison whose sort moves an element forward, keeps two different
\* keywords of equal potential in input order, and keeps a duplicate
C16_Witness ==
    /\ IsComparison
    /\ Len(args) >= 4
    /\ ret.ranked_keywords[1].keyword # args[1].keyword
    /\ ret.ranked_keywords[1].keyword = args[2].keyword
    /\ ret.ranked_keywords[2].keyword = args[3].keyword
    /\ ret.ranked_keywords[1].keyword # ret.ranked_keywords[2].keyword
    /\ ret.ranked_keywords[1].potential_score = ret.ranked_keywords[2].potential_score
    /\ ret.ranked_keywords[2] = ret.ranked_keywords[3]

IsPrimary(kw) == kw.potential_score >= Pts(70) /\ kw.relevance_score >= 800

IsSecondary(kw) ==
    kw.potential_score >= Pts(50) /\ kw.potential_score < Pts(70) /\ kw.relevance_score >= 600

IsLongTail(kw) == Len(split(kw.keyword)) >= 3 /\ kw.relevance_score >= 700

\* the first at most n entries of s
FirstAtMost(s, n) == SubSeq(s, 1, IF Len(s) < n THEN Len(s) ELSE n)

\* C17: primary_keywords is the first at most 5 ranked keywords with potential
\* >= 70 and relevance >= 0.8, secondary_keywords the first at most 10 with 50
\* <= potential < 70 and relevance >= 0.6, long_tail_keywords the first at most
\* 10 with at least 3 words and relevance >= 0.7.  (That the three lists may
\* share a keyword is what the witness shows.)
C17_Partitions ==
    IsComparison =>
        /\ ret.primary_keywords = FirstAtMost(SelectSeq(ret.ranked_keywords, IsPrimary), 5)
        /\ ret.secondary_keywords = FirstAtMost(SelectSeq(ret.ranked_keywords, IsSecondary), 10)
        /\ ret.long_tail_keywords = FirstAtMost(SelectSeq(ret.ranked_keywords, IsLongTail), 10)
        /\ Len(ret.primary_keywords) <= 5
        /\ Len(ret.secondary_keywords) <= 10
        /\ Len(ret.long_tail_keywords) <= 10

\* a comparison with more than 5 primary keywords, of which 5 are returned, and
\* with one keyword both in primary_keywords and in long_tail_keywords
C17_Witness ==
    /\ IsComparison
    /\ Len(SelectSeq(ret.ranked_keywords, IsPrimary)) > 5
    /\ Len(ret.primary_keywords) = 5
    /\ \E i \in 1..Len(ret.primary_keywords) : \E j \in 1..Len(ret.long_tail_keywords) :
          ret.primary_keywords[i] = ret.long_tail_keywords[j]

-----------------------------------------------------------------------------
(* Properties of the pipelines side by side (specification SpecPipelines) *)

\* the call just made repeats the remembered one
Repeats(f) ==
    /\ fn = f
    /\ ~earlier.isNone
    /\ earlier.v.fn = f
    /\ earlier.v.args = args

\* what is compared of a clustering: the clusters in order, each with its
\* intent, its member keywords in order and its combined score
Clusters(result) ==
    [i \in 1..Len(result) |->
        [intent |-> result[i].intent,
         keywords |-> result[i].keywords,
         combined_score |-> result[i].combined_score]]

\* C18: a call of cluster_by_intent on a keyword list without keyword data
\* yields the clusters an earlier call on the same list without data yielded on
\* this analyzer, whatever was called in between: the same clusters in the same
\* order, each with the same intent, the same member keywords in the same
\* order and the same combined_score.
C18_ClusteringIsIdempotent ==
    (Repeats("cluster_by_intent") /\ args.keyword_data = None)
        => Clusters(ret) = Clusters(earlier.v.ret)

\* a list with keywords of two intents is clustered without data a second
\* time, after the one keyword of it that the cache holds was analyzed in
\* between
C18_Witness ==
    /\ Repeats("cluster_by_intent")
    /\ args.keyword_data = None
    /\ Len(ret) >= 2
    /\ earlier.v.analyzed_keywords = EmptyBundle
    /\ Kw_track \in DOMAIN analyzed_keywords
    /\ Kw_track \in ToSet(args.keywords)

\* the operations that write the keyword cache
CacheWriters == {"analyze_keyword", "compare_keywords"}

\* the operations of the analyzer that only compute, and the scorer's report
CacheStrangers ==
    {"cluster_by_intent", "score_cluster", "generate_natural_queries",
     "calculate_overall_score"}

\* a call leaves alone what is not its own: only the cache writers change the
\* cache, and only the scorer changes the scorer's fields
C20_Step ==
    /\ fn' \notin CacheWriters => analyzed_keywords' = analyzed_keywords
    /\ fn' # "calculate_overall_score" => scorer_vars' = scorer_vars

\* C20: the keyword cache is changed only by a call of analyze_keyword (or of
\* compare_keywords, which analyzes): cluster_by_intent, score_cluster,
\* generate_natural_queries and the scorer's calculate_overall_score leave it
\* as it is, and each of them returns what the same call returned earlier,
\* whatever the cache held then and holds now; no analyzer call changes a
\* field of the scorer.
C20_PipelinesShareNoState ==
    /\ [](\A f \in CacheStrangers : Repeats(f) => ret = earlier.v.ret)
    /\ [][C20_Step]_vars

\* a cluster of three keywords is scored on its data a second time, beside a
\* cache that differs from the one of the first call, after the scorer reported
C20_Witness ==
    /\ Repeats("score_cluster")
    /\ Len(args.keywords) = 3
    /\ ~args.keyword_data.isNone
    /\ earlier.v.analyzed_keywords # analyzed_keywords
    /\ score_breakdown # EmptyBundle

-----------------------------------------------------------------------------
(* Properties of two callers on one scorer (specification SpecThreads) *)

\* C19: a report returned by calculate_overall_score while another call runs
\* on the same scorer has the score_breakdown, the strengths and the weaknesses
\* the call computes from its own inputs when it runs alone.
C19_OwnBreakdown ==
    fn = "calculate_overall_score" =>
        LET own == calculate_overall_score(args)
        IN  /\ ret.score_breakdown = own.score_breakdown
            /\ ret.strengths = own.strengths
            /\ ret.weaknesses = own.weaknesses

\* the last call clustered the keyword list args.keywords
Clustered == fn = "cluster_by_intent"

\* the intents of the returned clusters that have keyword k as a member
IntentsHolding(k) ==
    {ret[c].intent : c \in {d \in 1..Len(ret) : k \in ToSet(ret[d].keywords)}}

\* the size of the intersection of the keyword's lower-cased word set with
\* the seed words of category j of the intent table
OverlapWith(k, j) ==
    Cardinality(ToSet(findall_words(str_lower(k))) \cap ToSet(INTENT_CATEGORIES[j].words))

\* the intent the claim assigns to keyword k: the first category of the table
\* among those with the largest overlap, "general" when every overlap is 0
IntentByOverlap(k) ==
    LET table == 1..Len(INTENT_CATEGORIES)
        largest == CHOOSE n \in {OverlapWith(k, j) : j \in table} :
                       \A j \in table : OverlapWith(k, j) <= n
        first == CHOOSE j \in table :
                     /\ OverlapWith(k, j) = largest
                     /\ \A h \in 1..(j - 1) : OverlapWith(k, h) < largest
    IN  IF largest = 0 THEN "general" ELSE INTENT_CATEGORIES[first].intent

\* C22: cluster_by_intent puts each keyword into the cluster of the intent
\* category whose seed words share the most words with the keyword's
\* lower-cased word set, into the first such category in table order when
\* several share the largest non-zero overlap, and into the unclustered
\* ('general') bucket when no category shares a word with it.
C22_LargestOverlapFirstInTable ==
    Clustered =>
        \A i \in 1..Len(args.keywords) :
            IntentsHolding(args.keywords[i]) = {IntentByOverlap(args.keywords[i])}

\* a list is clustered that holds a keyword tied between 'plan' and 'save'
\* (it goes to 'plan'), a keyword with one 'track' word and two 'save' words
\* (it goes to 'save') and a keyword that matches nothing
C22_Witness ==
    /\ Clustered
    /\ IntentsHolding("Budget Planner") = {"plan"}
    /\ OverlapWith("Budget Planner", 3) = OverlapWith("Budget Planner", 9)
    /\ IntentsHolding("Track money budget") = {"save"}
    /\ OverlapWith("Track money budget", 1) = 1
    /\ IntentsHolding("sudoku") = {"general"}

\* C23: the clusters returned by cluster_by_intent partition the input list:
\* every occurrence of an input keyword is in exactly one cluster (a cluster's
\* members are the input occurrences of its keywords, in input order, and no
\* keyword is in two clusters), no cluster is empty, keyword_count is the
\* number of members, the counts sum to the input length, no two clusters
\* have the same intent, and the 'General' cluster is there exactly when some
\* keyword matched no intent.
C23_ClustersPartitionTheList ==
    Clustered =>
        LET keywords == args.keywords
            clusters == 1..Len(ret)
            members(c) == ToSet(ret[c].keywords)
        IN  /\ UNION {members(c) : c \in clusters} = ToSet(keywords)
            /\ \A c, d \in clusters : c # d => members(c) \cap members(d) = {}
            /\ \A c \in clusters :
                   ret[c].keywords = SelectSeq(keywords, LAMBDA k : k \in members(c))
            /\ \A c \in clusters : ret[c].keywords # <<>>
            /\ \A c \in clusters : ret[c].keyword_count = Len(ret[c].keywords)
            /\ SumSeq([c \in clusters |-> ret[c].keyword_count]) = Len(keywords)
            /\ \A c, d \in clusters : c # d => ret[c].intent # ret[d].intent
            /\ (\E c \in clusters : ret[c].intent = "general" /\ ret[c].name = "General")
                   <=> (\E i \in 1..Len(keywords) : IntentByOverlap(keywords[i]) = "general")

\* a list in which a keyword occurs twice, around a keyword of the same
\* intent, is clustered: the one cluster holds the three occurrences in input
\* order and there is no 'General' cluster
C23_Witness ==
    /\ Clustered
    /\ args.keywords = <<"track habits", Kw_track, "track habits">>
    /\ Len(ret) = 1
    /\ ret[1].keyword_count = 3
    /\ ret[1].intent = "track"

\* the last call scored the cluster args.keywords on the data args.keyword_data
Scored == fn = "score_cluster"

\* no per-keyword data: None or an empty mapping
NoKeywordData(keyword_data) == keyword_data.isNone \/ DOMAIN keyword_data.v = {}

\* min(sum of volumes / 10000, 30) + mean(relevance) * 30
\* + min(sum of opportunities * 10, 30) + min(count * 2, 10), where a keyword
\* without data counts with volume 0, 5000 competing apps and relevance 0.5
ClusterScoreOf(keywords, data) ==
    LET count == Len(keywords)
        of(i) == Get(data, keywords[i], EmptyBundle)
        volume(i) == Get(of(i), "search_volume", 0)
        competing(i) == Get(of(i), "competing_apps", 5000)
        relevance(i) == Get(of(i), "relevance_score", 500)
        opportunity(i) ==
            IF competing(i) = 0 THEN Times(Pts(volume(i)), relevance(i))
            ELSE Times(Div(volume(i), competing(i)), relevance(i))
        volumes == SumSeq([i \in 1..count |-> volume(i)])
        relevances == SumSeq([i \in 1..count |-> relevance(i)])
        opportunities == SumSeq([i \in 1..count |-> opportunity(i)])
    IN  Min(Div(volumes, 10000), Pts(30))
        + (Thousandths(relevances) \div count) * 30
        + Min(opportunities * 10, Pts(30))
        + Min(Pts(count * 2), Pts(10))

\* C24: score_cluster returns min(count * 10, 50) when no per-keyword data is
\* supplied; with data it returns, rounded to one decimal, the sum of the
\* capped volume, relevance, opportunity and count terms, where the
\* opportunity of a keyword is (volume / competing_apps) * relevance, or
\* volume * relevance without a competing app; the result lies in [0, 100].
C24_ClusterScore ==
    Scored =>
        /\ NoKeywordData(args.keyword_data) =>
               ret = Min(Pts(Len(args.keywords) * 10), Pts(50))
        /\ (~NoKeywordData(args.keyword_data) /\ args.keywords # <<>>) =>
               IsRounding(ret, ClusterScoreOf(args.keywords, args.keyword_data.v))
        /\ 0 <= ret /\ ret <= Pts(100)

\* a cluster of three keywords is scored with data: one keyword with 2000
\* competing apps, one with none, one without data; the opportunity term is
\* capped at 30 and the score is 60.0
C24_Witness ==
    /\ Scored
    /\ args.keywords = ScoredList
    /\ ~NoKeywordData(args.keyword_data)
    /\ Get(args.keyword_data.v["manage team"], "competing_apps", 5000) = 0
    /\ "track expenses daily" \notin DOMAIN args.keyword_data.v
    /\ ret = Pts(60)

\* the place of a cluster in the order the buckets are built: an intent cluster
\* at the input position of its first keyword, General after all of them
BuiltAt(cluster, keywords) ==
    IF cluster.intent = "general" THEN Len(keywords) + 1
    ELSE CHOOSE i \in 1..Len(keywords) :
             /\ keywords[i] = cluster.keywords[1]
             /\ \A j \in 1..(i - 1) : keywords[j] # cluster.keywords[1]

\* C25: the clusters returned by cluster_by_intent are in order of
\* non-increasing combined_score, and clusters of equal score are in the order
\* their buckets were built (intent clusters by the first input keyword
\* assigned to each, then General); the list ['track expenses', 'manage team',
\* 'track expenses daily'] without data gives the track cluster (two keywords,
\* score 20) followed by the manage cluster (one keyword, score 10).
C25_SortedByScoreStable ==
    Clustered =>
        /\ \A c, d \in 1..Len(ret) :
               c < d =>
                   \/ ret[c].combined_score > ret[d].combined_score
                   \/ /\ ret[c].combined_score = ret[d].combined_score
                      /\ BuiltAt(ret[c], args.keywords) < BuiltAt(ret[d], args.keywords)
        /\ (args.keywords = ScoredList /\ args.keyword_data = None) =>
               Clusters(ret) =
                   <<[intent |-> "track", keywords |-> <<Kw_track, "track expenses daily">>,
                      combined_score |-> Pts(20)],
                     [intent |-> "manage", keywords |-> <<"manage team">>,
                      combined_score |-> Pts(10)]>>

\* four clusters of one keyword each tie at score 10: they come out as plan,
\* track, save, General, although the unmatched keyword is second in the input
C25_Witness ==
    /\ Clustered
    /\ Len(args.keywords) = 4
    /\ args.keywords[2] = "sudoku"
    /\ Len(ret) = 4
    /\ \A c \in 1..4 : ret[c].combined_score = Pts(10)
    /\ [c \in 1..4 |-> ret[c].intent] = <<"plan", "track", "save", "general">>

\* the template bank of an intent: its three templates, the two generic ones
\* for an intent without a bank
BankOf(intent) == IF intent \in DOMAIN templates THEN templates[intent] ELSE generic_templates

\* C26: every cluster returned by cluster_by_intent carries natural queries:
\* at most five, no string twice, each built from a template of the bank of
\* the cluster's intent (the generic bank for 'General') and an object term of
\* the cluster's keywords, and at least one whenever the keywords yield an
\* object term.
C26_QueriesForEveryCluster ==
    Clustered =>
        \A c \in 1..Len(ret) :
            LET queries == ret[c].natural_queries
                objects == objects_of(ret[c].intent, ret[c].keywords)
                bank == BankOf(ret[c].intent)
            IN  /\ Len(queries) <= 5
                /\ \A i, j \in 1..Len(queries) : queries[i] = queries[j] => i = j
                /\ \A i \in 1..Len(queries) :
                       \E o \in objects, t \in 1..Len(bank) : queries[i] = format(bank[t], o)
                /\ objects # {} => queries # <<>>

\* C29: the list generate_natural_queries returns for an intent, a keyword
\* list and max_queries is the list every run returns for them, whatever the
\* order in which the run enumerates the de-duplicated object terms.
C29_QueriesIgnoreEnumerationOrder ==
    fn = "generate_natural_queries" =>
        \A order \in HashOrders :
            ret = natural_queries_in(order, args.intent, args.keywords, args.max_queries)

====
